---- MODULE Spec2Model ----
(***************************************************************************)
(* Quantum Careers backend (src/server.py): resume scoring, job matching,  *)
(* quiz generation, quiz grading and the in-memory session/result store;   *)
(* and the handlers of the older backend the repository keeps beside it    *)
(* (src/jvh-main/jvh-main/backend/server.py) that write its stores.        *)
(*                                                                         *)
(* Conventions                                                             *)
(*   - a Python str is a sequence of one-character strings, so that        *)
(*     strip(), lower() and the `in` substring test are computed;          *)
(*     identifiers that the code only compares for equality (question ids, *)
(*     user ids, status words) stay TLA+ strings;                          *)
(*   - a Python dict with a variable key set is a function, dict.get is    *)
(*     Get;                                                                *)
(*   - a float that is a quotient is the exact fraction [n |-> , d |-> ];  *)
(*     a float produced by round(x, 2) is an integer number of hundredths; *)
(*   - datetimes are minutes since the process started;                    *)
(*   - a JSON value of a reply of the chat service is a pair               *)
(*     <<type, content>>, the elements of a list being such pairs; an      *)
(*     optional value is <<>> or <<value>>;                                *)
(*   - a handler is one action per stretch of code between two awaits;     *)
(*     the reply of the chat service and the outcome of a call of the      *)
(*     document store are chosen when the handler resumes.                 *)
(*                                                                         *)
(* Specifications                                                          *)
(*   Spec        the server: start_test, submit_test and the clock;        *)
(*   SpecGrade   the grading of submit_test on every session start_test    *)
(*               can create;                                               *)
(*   SpecCoding  grade_coding_answers on submitted source texts;           *)
(*   SpecScore   calculate_strength_score;                                 *)
(*   SpecMatch   calculate_job_match;                                      *)
(*   SpecRecs    get_job_recommendations and upgrade_me on stored          *)
(*               analyses;                                                 *)
(*   SpecStore   upload_resume, get_resume_analysis,                       *)
(*               get_job_recommendations, upgrade_me and start_test with   *)
(*               the chat service and the document store;                  *)
(*   SpecMirror  every handler that calls the document store;              *)
(*   SpecHistory get_test_history and get_profile_overview on stored       *)
(*               results;                                                  *)
(*   SpecRace    upload_resume on two connections;                         *)
(*   SpecParse   parse_education and parse_work_experience on lines of     *)
(*               every length around the thresholds;                       *)
(*   SpecShapes  upload_resume over the shapes a reply can parse to;       *)
(*   SpecSubmit  start_test and submit_test on two connections;            *)
(*   SpecStale   upload_resume and get_resume_analysis on two connections; *)
(*   SpecLegacy  the older backend: start_test, submit_test, upload_resume  *)
(*               and get_job_recommendations.                              *)
(***************************************************************************)
EXTENDS Integers, Sequences, FiniteSets, TLC

VARIABLES
    api_key_set,     \* bool(MISTRAL_API_KEY), fixed for the process lifetime
    test_sessions,   \* session id -> stored session
    test_results,    \* the stored results: <<session id, result>> in the order stored
    now,             \* datetime.utcnow(), in minutes
    response,        \* the answer to the last request handled
    due,             \* history: sessions that received a submit_test while active and unexpired
                     \*          (in the older backend: sessions a submit_test succeeded for)
    db_enabled,      \* DB_ENABLED and db is not None, fixed for the process lifetime
    resume_data,     \* user id -> stored resume analysis
    job_recommendations_data,  \* user id -> stored recommendation list
    db,              \* the document store: resumes user id -> document, results the documents in insertion order
    inflight,        \* connection -> the request its handler is working on
    done,            \* the last request answered, with its response
    started,         \* number of requests received so far
    latest,          \* history: user id -> the upload whose analysis was stored last,
                     \*          and how many were stored for that user
    args,            \* inputs of the pure function under check
    ret              \* <<>> before the call, <<value>> after it

storeVars == <<db_enabled, resume_data, job_recommendations_data, db, inflight, done, started, latest>>
serverVars == <<api_key_set, test_sessions, test_results, now, response, due, storeVars>>
pureVars == <<args, ret>>
vars == <<api_key_set, test_sessions, test_results, now, response, due, storeVars, args, ret>>

(***************************************************************************)
(* Bounds of the model.                                                    *)
(***************************************************************************)
MaxSessions == 2        \* sessions created in one run
MaxTime == 40           \* last instant of the clock, in minutes
MaxTokens == 3          \* pieces a submitted source text is built from
MaxListLen == 9         \* longest resume list handed to the strength score
MaxSkills == 2          \* longest skill list handed to the job match
MaxRawMcq == 2          \* longest MCQ list in an enumerated reply of the chat service
MaxResults == 2         \* most result documents the mirror holds when the process starts
MaxLine == 16           \* longest line handed to the heuristic parser on its own

(***************************************************************************)
(* Python helpers.                                                         *)
(***************************************************************************)
SetMin(S) == CHOOSE x \in S : \A y \in S : x <= y
SetMax(S) == CHOOSE x \in S : \A y \in S : x >= y

Get(d, k, default) == IF k \in DOMAIN d THEN d[k] ELSE default

\* A dict whose order is read (test_results.values()) is the sequence of its
\* <<key, value>> items in the order the keys were first assigned.
Keys(items) == {items[i][1] : i \in 1..Len(items)}
Item(items, k) == items[CHOOSE i \in 1..Len(items) : items[i][1] = k][2]
SetItem(items, k, v) ==
    IF k \in Keys(items)
    THEN [i \in 1..Len(items) |-> IF items[i][1] = k THEN <<k, v>> ELSE items[i]]
    ELSE Append(items, <<k, v>>)

\* d.values()
Values(items) == [i \in 1..Len(items) |-> items[i][2]]

Put(d, k, v) == [x \in DOMAIN d \cup {k} |-> IF x = k THEN v ELSE d[x]]

EmptyDict == [x \in {} |-> 0]

Take(s, n) == SubSeq(s, 1, IF Len(s) < n THEN Len(s) ELSE n)

Whitespace == {" ", "\n", "\t"}

\* str.strip()
Strip(s) ==
    LET keep == {i \in 1..Len(s) : s[i] \notin Whitespace}
    IN  IF keep = {} THEN <<>> ELSE SubSeq(s, SetMin(keep), SetMax(keep))

\* sub in s
Contains(s, sub) ==
    \E i \in 0..(Len(s) - Len(sub)) : \A k \in 1..Len(sub) : s[i + k] = sub[k]

UpperLetters ==
    <<"A", "B", "C", "D", "E", "F", "G", "H", "I", "J", "K", "L", "M",
      "N", "O", "P", "Q", "R", "S", "T", "U", "V", "W", "X", "Y", "Z">>

LowerLetters ==
    <<"a", "b", "c", "d", "e", "f", "g", "h", "i", "j", "k", "l", "m",
      "n", "o", "p", "q", "r", "s", "t", "u", "v", "w", "x", "y", "z">>

Digits == <<"0", "1", "2", "3", "4", "5", "6", "7", "8", "9">>

\* position of c in the sequence s, 0 when absent
IndexOf(s, c) ==
    IF \E i \in 1..Len(s) : s[i] = c THEN CHOOSE i \in 1..Len(s) : s[i] = c ELSE 0

\* set(s) for a list s
ToSet(s) == {s[i] : i \in 1..Len(s)}

ToLower == [c \in ToSet(UpperLetters) |-> LowerLetters[IndexOf(UpperLetters, c)]]

ToUpper == [c \in ToSet(LowerLetters) |-> UpperLetters[IndexOf(LowerLetters, c)]]

LowerChar(c) == IF c \in DOMAIN ToLower THEN ToLower[c] ELSE c

UpperChar(c) == IF c \in DOMAIN ToUpper THEN ToUpper[c] ELSE c

\* str.lower()
Lower(s) == [i \in 1..Len(s) |-> LowerChar(s[i])]

\* str.upper()
Upper(s) == [i \in 1..Len(s) |-> UpperChar(s[i])]

\* the characters of the model in code point order
CodePoints ==
    <<"\t", "\n", " ", "#", "(", ")", "*", "+", ",", "-", ".", "/">> \o Digits \o <<":">>
        \o UpperLetters \o <<"_">> \o LowerLetters

\* ord(c), up to the order
Ord == [c \in ToSet(CodePoints) |-> IndexOf(CodePoints, c)]

\* a < b for Python str: lexicographic by code point, a proper prefix first
RECURSIVE StrLess(_, _)
StrLess(a, b) ==
    IF b = <<>> THEN FALSE
    ELSE IF a = <<>> THEN TRUE
    ELSE IF Head(a) = Head(b) THEN StrLess(Tail(a), Tail(b))
    ELSE Ord[Head(a)] < Ord[Head(b)]

\* sorted(S) for a set S of str
RECURSIVE Sorted(_)
Sorted(S) ==
    IF S = {} THEN <<>>
    ELSE LET m == CHOOSE x \in S : \A y \in S \ {x} : StrLess(x, y)
         IN  <<m>> \o Sorted(S \ {m})

Frac(n, d) == [n |-> n, d |-> d]

\* round(x, 2) of the float x the code computes for the quotient a / b of
\* hundredths, in hundredths (a >= 0, b > 0).  round works on the binary
\* float: where a / b is exactly halfway between two hundredths the float
\* lies at, above or below the halfway point, depending on the operands and
\* the order of the float operations, which the model does not compute; up
\* tells whether the result is the upper neighbour.
RoundDiv(a, b, up) ==
    LET q == a \div b
        r == a % b
    IN  IF 2 * r < b THEN q
        ELSE IF 2 * r > b THEN q + 1
        ELSE IF up THEN q + 1 ELSE q

(***************************************************************************)
(* Program constants.                                                      *)
(***************************************************************************)
DurationMinutes == 30   \* TestSession.duration_minutes and the expires_at default
N_MCQ == 3              \* start_test: n_mcq
N_CODING == 2           \* start_test: n_coding
MaxOptions == 6         \* norm_mcq: options[:6]

NoneStr == "None"       \* Python None where a str is expected
Absent == "absent"      \* a key the object of a reply does not have

(***************************************************************************)
(* Question banks.  Of a question the model keeps what the grading and the *)
(* validity check read: id, options, correct_answer, category (the text,   *)
(* difficulty, template and test cases are only passed through).           *)
(***************************************************************************)
MCQ_FALLBACK ==
    << [id |-> "mcq1", options |-> <<"Bit", "Byte", "Qubit", "Gate">>,
        correct_answer |-> 2, category |-> "quantum_basics"],
       [id |-> "mcq2", options |-> <<"Entanglement", "Superposition", "Decoherence", "Interference">>,
        correct_answer |-> 1, category |-> "quantum_basics"],
       [id |-> "mcq3", options |-> <<"Pauli-X", "Pauli-Z", "Hadamard", "CNOT">>,
        correct_answer |-> 2, category |-> "quantum_gates"] >>

CODING_FALLBACK ==
    << [id |-> "code1", category |-> "programming"],
       [id |-> "code2", category |-> "programming"] >>

Fallback == [mcq_questions |-> MCQ_FALLBACK, coding_questions |-> CODING_FALLBACK]

(***************************************************************************)
(* Grading.                                                                *)
(***************************************************************************)
\* grade_mcq_answers: one entry of details
McqDetail(q, answers) ==
    LET user_ans == Get(answers, q.id, -1)
    IN  [question_id |-> q.id,
         correct |-> (user_ans = q.correct_answer),
         user_answer |-> user_ans,
         correct_answer |-> q.correct_answer,
         category |-> q.category]

grade_mcq_answers(questions, answers) ==
    LET total == Len(questions)
        details == [i \in 1..total |-> McqDetail(questions[i], answers)]
        correct == Cardinality({i \in 1..total : details[i].correct})
    IN  [score |-> IF total # 0 THEN Frac(correct * 100, total) ELSE Frac(0, 1),
         correct |-> correct,
         total |-> total,
         details |-> details]

DefMarker == <<"d", "e", "f", " ">>
FunctionMarker == <<"f", "u", "n", "c", "t", "i", "o", "n", " ">>
ReturnMarker == <<"r", "e", "t", "u", "r", "n">>

\* grade_coding_answers: code_score of one submitted source text
CodeScore_WideReturn(user_code) ==
    (IF Len(Strip(user_code)) > 20 THEN 30 ELSE 0)
  + (IF Contains(user_code, DefMarker) \/ Contains(user_code, FunctionMarker) THEN 30 ELSE 0)
  + (IF Contains(user_code, ReturnMarker) THEN 50 ELSE 0)

CodeScore(user_code) ==
    (IF Len(Strip(user_code)) > 20 THEN 30 ELSE 0)
  + (IF Contains(user_code, DefMarker) \/ Contains(user_code, FunctionMarker) THEN 30 ELSE 0)
  + (IF Contains(user_code, ReturnMarker) THEN 40 ELSE 0)

RECURSIVE SumSeq(_)
SumSeq(s) == IF s = <<>> THEN 0 ELSE Head(s) + SumSeq(Tail(s))

grade_coding_answers(questions, answers) ==
    LET total == Len(questions)
        details == [i \in 1..total |->
                      LET code_score == CodeScore(Get(answers, questions[i].id, <<>>))
                      IN  [question_id |-> questions[i].id,
                           score |-> code_score,
                           max_score |-> 100,
                           good |-> code_score > 60]]
        score == SumSeq([i \in 1..total |-> details[i].score])
    IN  [score |-> IF total # 0 THEN Frac(score * 100, total * 100) ELSE Frac(0, 1),
         details |-> details]

\* submit_test: round(mcq * 0.6 + coding * 0.4, 2), in hundredths
TotalScore_Swapped(mcq, coding, up) ==
    RoundDiv(100 * (4 * mcq.n * coding.d + 6 * coding.n * mcq.d), 10 * mcq.d * coding.d, up)

TotalScore(mcq, coding, up) ==
    RoundDiv(100 * (6 * mcq.n * coding.d + 4 * coding.n * mcq.d), 10 * mcq.d * coding.d, up)

\* submit_test: the result record built from a session and a submission
BuildResult(session_id, session, mcq_answers, coding_answers, up) ==
    LET mcq_results == grade_mcq_answers(session.mcq_questions, mcq_answers)
        coding_results == grade_coding_answers(session.coding_questions, coding_answers)
    IN  [session_id |-> session_id,
         user_id |-> session.user_id,
         mcq_results |-> mcq_results,
         coding_results |-> coding_results,
         total_score |-> TotalScore(mcq_results.score, coding_results.score, up),
         timestamp |-> now,
         duration_taken |-> 25]

(***************************************************************************)
(* Question generation.  A reply of the chat service is                    *)
(*   kind = "error"       the request failed or timed out,                 *)
(*   kind = "unparsable"  safe_json_loads raised,                          *)
(*   kind = "nondict"     the reply parsed to a JSON value that is no      *)
(*                        object (data.get raises),                        *)
(*   kind = "dict"        the reply parsed to an object whose              *)
(*                        mcq_questions / coding_questions are the lists   *)
(*                        given (a missing key is the empty list).         *)
(* A raw correct_answer is <<"absent", 0>>, <<"int", n>> or <<"bad", 0>>   *)
(* (a value int() raises on, such as null); a raw category is Absent (no  *)
(* such key), NoneStr (null) or the string given.                          *)
(***************************************************************************)
McqIds == <<"mcq1", "mcq2", "mcq3", "mcq4", "mcq5", "mcq6">>
CodeIds == <<"code1", "code2", "code3", "code4", "code5", "code6">>

Falsy(s) == s = NoneStr \/ s = ""

IntRaises(raw) == raw[1] = "bad"

\* int(q.get("correct_answer", 0))
IntOf(raw) == IF raw[1] = "absent" THEN 0 ELSE raw[2]

\* i counts from 1 here, so the synthesized id is mcq{i}; q.get("category",
\* "general") gives the default for a missing key only: a null is kept
norm_mcq(i, q) ==
    [id |-> IF Falsy(q.id) THEN McqIds[i] ELSE q.id,
     options |-> Take(q.options, MaxOptions),
     correct_answer |-> IntOf(q.correct_answer),
     category |-> IF q.category = Absent THEN "general" ELSE q.category]

norm_code(i, q) ==
    [id |-> IF Falsy(q.id) THEN CodeIds[i] ELSE q.id,
     category |-> IF q.category = Absent THEN "programming" ELSE q.category]

\* mistral_chat_json: TRUE when the call returns a parsed object
ChatReturnsDict(reply) == api_key_set /\ reply.kind = "dict"

mistral_generate_questions_Unchecked(reply) ==
    IF ~ChatReturnsDict(reply) THEN Fallback
    ELSE [mcq_questions |->
              Take([i \in 1..Len(reply.mcq_questions) |-> norm_mcq(i, reply.mcq_questions[i])],
                   N_MCQ),
          coding_questions |->
              Take([i \in 1..Len(reply.coding_questions) |->
                       norm_code(i, reply.coding_questions[i])], N_CODING)]

mistral_generate_questions(reply) ==
    IF ~ChatReturnsDict(reply) THEN Fallback
    ELSE LET mcq == reply.mcq_questions
             code == reply.coding_questions
         IN  IF \E i \in 1..Len(mcq) : IntRaises(mcq[i].correct_answer) THEN Fallback
             ELSE LET mcq_n == Take([i \in 1..Len(mcq) |-> norm_mcq(i, mcq[i])], N_MCQ)
                      code_n == Take([i \in 1..Len(code) |-> norm_code(i, code[i])], N_CODING)
                  IN  IF mcq_n = <<>> \/ code_n = <<>> THEN Fallback
                      ELSE IF \E i \in 1..Len(mcq_n) : mcq_n[i].options = <<>> THEN Fallback
                      ELSE [mcq_questions |-> mcq_n, coding_questions |-> code_n]

(***************************************************************************)
(* Sessions.  pytype tells a pydantic TestSession object from the plain    *)
(* dict that .dict() returns: attribute access (session.status) works on   *)
(* the first and raises AttributeError on the second.                      *)
(***************************************************************************)
Users == {"u1", "u2"}

\* TestSession(id=..., user_id=..., mcq_questions=..., coding_questions=...)
TestSession(id, user_id, mcq_questions, coding_questions) ==
    [pytype |-> "TestSession",
     id |-> id,
     user_id |-> user_id,
     mcq_questions |-> mcq_questions,
     coding_questions |-> coding_questions,
     duration_minutes |-> DurationMinutes,
     status |-> "active",
     start_time |-> now,
     expires_at |-> now + DurationMinutes]

\* start_test: the value stored in test_sessions, sess.dict()
StoredSession(sess) == [sess EXCEPT !.pytype = "dict"]

\* session.expires_at, session.status, ... : attribute access
HasAttributes(session) == session.pytype = "TestSession"

NewSessionId_OnePerProcess ==
    IF DOMAIN test_sessions = {} THEN Cardinality(DOMAIN test_sessions) + 1
    ELSE SetMin(DOMAIN test_sessions)

\* uuid.uuid4(): an id no session has
NewSessionId == Cardinality(DOMAIN test_sessions) + 1

Answer(op, session_id, code, pre_status, late, resubmit) ==
    [op |-> op, session_id |-> session_id, code |-> code,
     pre_status |-> pre_status, late |-> late, resubmit |-> resubmit]

(***************************************************************************)
(* Replies of the chat service the server model draws from.                *)
(***************************************************************************)
RawMcq(id, nopts, answer) ==
    [id |-> id,
     options |-> [i \in 1..nopts |-> "option"],
     correct_answer |-> answer,
     category |-> Absent]

RawCode(id) == [id |-> id, category |-> Absent]

Reply(kind, mcq, code) == [kind |-> kind, mcq_questions |-> mcq, coding_questions |-> code]

SampleReplies ==
    { Reply("error", <<>>, <<>>),
      Reply("dict", <<RawMcq(NoneStr, 4, <<"int", -1>>)>>, <<RawCode(NoneStr)>>),
      Reply("dict", <<RawMcq("q1", 2, <<"int", 1>>),
                      [RawMcq("q2", 2, <<"int", 0>>) EXCEPT !.category = NoneStr],
                      RawMcq("q3", 7, <<"absent", 0>>), RawMcq("q4", 2, <<"int", 1>>)>>,
                    <<RawCode("c1"), [RawCode("c2") EXCEPT !.category = NoneStr],
                      RawCode("c3")>>) }

SampleMcqAnswers ==
    { EmptyDict,
      [k \in {"mcq1", "mcq2", "mcq3"} |-> IF k = "mcq2" THEN 1 ELSE 2] }

FullCode == DefMarker \o <<"f", "(", "n", ")", ":", "\n", " ">> \o ReturnMarker \o <<" ", "n", "*", "f", "(", "n", "-", "1", ")">>

SampleCodingAnswers ==
    { EmptyDict,
      [k \in {"code1"} |-> FullCode] }

(***************************************************************************)
(* Requests.  A handler runs from one await to the next without            *)
(* interruption; inflight holds, per connection, the request whose handler *)
(* is suspended at an await (pc names the await), and done the last        *)
(* request answered.  body is <<>> or <<value>>: the record being built or *)
(* returned.  llm_requests and db_errors count the requests this handler   *)
(* sent to the chat service and the document store calls that raised;      *)
(* reply is <<>> or <<what the chat service answered>>, llm_failed tells    *)
(* that mistral_chat_json raised.                                          *)
(***************************************************************************)
Slots == {"a", "b"}

Request(op, user_id, input) ==
    [op |-> op, user_id |-> user_id, input |-> input, pc |-> "start",
     code |-> 0, body |-> <<>>, llm_requests |-> 0, reply |-> <<>>,
     llm_failed |-> FALSE, db_errors |-> 0]

NoRequest == [Request("none", "none", <<>>) EXCEPT !.pc = "idle"]

\* the document store of a process that mirrors nothing
EmptyDb == [resumes |-> EmptyDict, results |-> <<>>]

\* the state of the stores and connections right after the process started
\* without a document store
StoreIdle ==
    /\ db_enabled = FALSE
    /\ resume_data = EmptyDict
    /\ job_recommendations_data = EmptyDict
    /\ db = EmptyDb
    /\ inflight = [s \in Slots |-> NoRequest]
    /\ done = NoRequest
    /\ started = 0
    /\ latest = EmptyDict

(***************************************************************************)
(* The server.                                                             *)
(***************************************************************************)
Init ==
    /\ api_key_set \in BOOLEAN
    /\ test_sessions = EmptyDict
    /\ test_results = <<>>
    /\ now = 0
    /\ response = Answer("none", 0, 0, "none", FALSE, FALSE)
    /\ due = {}
    /\ StoreIdle
    /\ args = <<>>
    /\ ret = <<>>

\* start_test: the questions of the new session
StartTestQuestions(reply) ==
    IF api_key_set THEN mistral_generate_questions(reply) ELSE Fallback

\* start_test
StartTest(user_id, reply) ==
    /\ Cardinality(DOMAIN test_sessions) < MaxSessions
    /\ LET gen == StartTestQuestions(reply)
           sess == TestSession(NewSessionId, user_id, gen.mcq_questions, gen.coding_questions)
       IN  /\ test_sessions' = Put(test_sessions, sess.id, StoredSession(sess))
           /\ response' = Answer("start_test", sess.id, 200, "none", FALSE, FALSE)
    /\ UNCHANGED <<api_key_set, test_results, now, due, storeVars, args, ret>>

\* submit_test
SubmitTest(session_id, mcq_answers, coding_answers) ==
    IF session_id \notin DOMAIN test_sessions
    THEN \* 404
         /\ response' = Answer("submit_test", session_id, 404, "none", FALSE, FALSE)
         /\ UNCHANGED <<api_key_set, test_sessions, test_results, now, due, storeVars, args, ret>>
    ELSE LET session == test_sessions[session_id]
             late == now > session.expires_at
             pre == Answer("submit_test", session_id, 0, session.status, late, session_id \in due)
         IN  /\ due' = IF session.status = "active" /\ ~late THEN due \cup {session_id} ELSE due
             /\ IF ~HasAttributes(session)
                THEN \* session.expires_at raises AttributeError: 500
                     /\ response' = [pre EXCEPT !.code = 500]
                     /\ UNCHANGED <<test_sessions, test_results>>
                ELSE LET status == IF late THEN "expired" ELSE session.status
                     IN  IF status # "active"
                         THEN \* 400
                              /\ test_sessions' = [test_sessions EXCEPT ![session_id].status = status]
                              /\ response' = [pre EXCEPT !.code = 400]
                              /\ UNCHANGED test_results
                         ELSE /\ \E up \in BOOLEAN :
                                    test_results' = SetItem(test_results, session_id,
                                        BuildResult(session_id, session, mcq_answers,
                                                    coding_answers, up))
                              /\ test_sessions' = [test_sessions EXCEPT ![session_id].status = "completed"]
                              /\ response' = [pre EXCEPT !.code = 200]
             /\ UNCHANGED <<api_key_set, now, storeVars, args, ret>>

\* time passes between requests
Tick(d) ==
    /\ now + d <= MaxTime
    /\ now' = now + d
    /\ UNCHANGED <<api_key_set, test_sessions, test_results, response, due, storeVars, args, ret>>

Next ==
    \/ \E u \in Users, r \in SampleReplies : StartTest(u, r)
    \/ \E s \in 1..(MaxSessions + 1), m \in SampleMcqAnswers, c \in SampleCodingAnswers :
          SubmitTest(s, m, c)
    \/ \E d \in {DurationMinutes \div 2, DurationMinutes + 1} : Tick(d)

Spec == Init /\ [][Next]_vars

(***************************************************************************)
(* Claims about the session life cycle (specification Spec).               *)
(***************************************************************************)
\* the last request was a submit_test for a session that exists
SubmitAnswered == response.op = "submit_test" /\ response.code # 404

\* C1: a submit_test on an existing session that is active and not past its
\* expiry returns the result (200), stores it in test_results under the
\* session id and sets the session's status to completed.
C1_SubmitStoresAndCompletes ==
    (SubmitAnswered /\ response.pre_status = "active" /\ ~response.late)
        => /\ response.code = 200
           /\ response.session_id \in Keys(test_results)
           /\ test_sessions[response.session_id].status = "completed"

C4_LateSubmitExpires ==
    (SubmitAnswered /\ response.pre_status = "active" /\ response.late)
        => /\ response.code = 400
           /\ test_sessions[response.session_id].status = "expired"
           /\ response.session_id \notin Keys(test_results)

(***************************************************************************)
(* Grading of every session start_test can create (specification           *)
(* SpecGrade): the questions come from start_test's generation step, the   *)
(* submission is any TestSubmission over the session's question ids.       *)
(***************************************************************************)
ServerIdle ==
    /\ test_sessions = EmptyDict
    /\ test_results = <<>>
    /\ now = 0
    /\ response = Answer("none", 0, 0, "none", FALSE, FALSE)
    /\ due = {}
    /\ StoreIdle

RECURSIVE SeqsUpTo(_, _)
SeqsUpTo(S, n) ==
    IF n = 0 THEN {<<>>}
    ELSE LET shorter == SeqsUpTo(S, n - 1)
         IN  shorter \cup {Append(q, x) : q \in shorter, x \in S}

RawMcqItems ==
    {RawMcq(NoneStr, n, a) : n \in {0, 2},
                             a \in {<<"absent", 0>>, <<"bad", 0>>, <<"int", -1>>, <<"int", 1>>}}

RawCodeLists == {<<>>, <<RawCode(NoneStr)>>, <<RawCode("c1"), RawCode(NoneStr)>>}

LlmQuestionReplies ==
    SampleReplies
    \cup {Reply(k, <<>>, <<>>) : k \in {"unparsable", "nondict"}}
    \cup {Reply("dict", <<RawMcq("q1", 2, <<"int", 0>>), RawMcq("q1", 2, <<"int", 1>>)>>,
                <<RawCode("c1")>>)}
    \cup {Reply("dict", m, c) : m \in SeqsUpTo(RawMcqItems, MaxRawMcq), c \in RawCodeLists}

AnswerValues == {-1, 0, 1, 2}

\* every dict whose keys are among keys and whose values are among values
Dicts(keys, values) == UNION {[D -> values] : D \in SUBSET keys}

Ids(questions) == {questions[i].id : i \in 1..Len(questions)}

GradeCodes == {<<>>, ReturnMarker, FullCode}

InitGrade ==
    /\ api_key_set \in BOOLEAN
    /\ ServerIdle
    /\ args = <<>>
    /\ ret = <<>>

\* start_test builds the session from the reply of the chat service
GenerateSession(reply) ==
    /\ args = <<>>
    /\ LET gen == StartTestQuestions(reply)
       IN  args' = <<TestSession(1, "u1", gen.mcq_questions, gen.coding_questions)>>
    /\ UNCHANGED <<serverVars, ret>>

\* submit_test grades a submission (lines 741-753)
GradeSubmission ==
    /\ args # <<>>
    /\ ret = <<>>
    /\ \E m \in Dicts(Ids(args[1].mcq_questions), AnswerValues),
          c \in Dicts(Ids(args[1].coding_questions), GradeCodes), up \in BOOLEAN :
          ret' = <<[mcq_answers |-> m, coding_answers |-> c,
                    result |-> BuildResult(1, args[1], m, c, up)]>>
    /\ UNCHANGED <<serverVars, args>>

NextGrade ==
    \/ \E r \in LlmQuestionReplies : GenerateSession(r)
    \/ GradeSubmission

SpecGrade == InitGrade /\ [][NextGrade]_vars

\* C5: grade_mcq_answers never marks a question correct when the submission
\* holds no answer for that question's id.
C5_UnansweredNeverCorrect ==
    ret # <<>> =>
        \A i \in 1..Len(ret[1].result.mcq_results.details) :
            LET d == ret[1].result.mcq_results.details[i]
            IN  d.question_id \notin DOMAIN ret[1].mcq_answers => ~d.correct

\* the submission answers no question of the session
AnswersNone == DOMAIN ret[1].mcq_answers \cap Ids(args[1].mcq_questions) = {}

\* the submission gives every question's stored correct index
AnswersAllCorrect ==
    \A i \in 1..Len(args[1].mcq_questions) :
        LET q == args[1].mcq_questions[i]
        IN  q.id \in DOMAIN ret[1].mcq_answers /\ ret[1].mcq_answers[q.id] = q.correct_answer

\* C6: the MCQ score is 0 when no question is answered and 100 when every
\* question is answered with its stored correct index.
C6_NoneIsZeroAllIsHundred ==
    ret # <<>> =>
        LET score == ret[1].result.mcq_results.score
        IN  /\ AnswersNone => score.n = 0
            /\ AnswersAllCorrect => score.n = 100 * score.d

\* C8: in every result submit_test builds, the MCQ score, the coding score
\* and total_score lie within 0..100, and total_score is 0.6 * mcq score +
\* 0.4 * coding score to within the rounding to 2 decimals (half a hundredth).
C8_ScoresInRangeAndWeighted ==
    ret # <<>> =>
        LET m == ret[1].result.mcq_results.score
            c == ret[1].result.coding_results.score
            t == ret[1].result.total_score
            exact == 100 * (6 * m.n * c.d + 4 * c.n * m.d)  \* times 10 * m.d * c.d
            diff == t * 10 * m.d * c.d - exact
        IN  /\ 0 <= m.n /\ m.n <= 100 * m.d
            /\ 0 <= c.n /\ c.n <= 100 * c.d
            /\ 0 <= t /\ t <= 10000
            /\ 2 * diff <= 10 * m.d * c.d
            /\ -2 * diff <= 10 * m.d * c.d

\* C8 witness: a result of a generated (not fallback) session with one of its
\* questions right, partial coding credit and a total strictly inside 0..100.
C8_Witness ==
    /\ ret # <<>>
    /\ args[1].mcq_questions # MCQ_FALLBACK
    /\ ret[1].result.mcq_results.correct = 1
    /\ ret[1].result.mcq_results.total = 2
    /\ ret[1].result.coding_results.score.n = 40 * ret[1].result.coding_results.score.d
    /\ ret[1].result.total_score = 4600

(***************************************************************************)
(* grade_coding_answers on submitted source texts (specification           *)
(* SpecCoding).  A text is a concatenation of at most MaxTokens pieces.    *)
(***************************************************************************)
Pad10 == [i \in 1..10 |-> "x"]

CodeTokens == {DefMarker, FunctionMarker, ReturnMarker, <<" ">>, <<"x">>, Pad10}

RECURSIVE TokenStrings(_)
TokenStrings(n) ==
    IF n = 0 THEN {<<>>}
    ELSE LET shorter == TokenStrings(n - 1)
         IN  shorter \cup {s \o t : s \in shorter, t \in CodeTokens}

CodingSubmissions ==
    {EmptyDict}
    \cup {[k \in {"code1"} |-> s] : s \in TokenStrings(MaxTokens)}
    \cup {[k \in {"code1", "code2"} |-> IF k = "code1" THEN s ELSE FullCode] :
              s \in TokenStrings(MaxTokens)}

InitCoding ==
    /\ api_key_set = FALSE
    /\ ServerIdle
    /\ args = <<>>
    /\ ret = <<>>

GradeCoding(questions, answers) ==
    /\ ret = <<>>
    /\ args' = <<[questions |-> questions, answers |-> answers]>>
    /\ ret' = <<grade_coding_answers(questions, answers)>>
    /\ UNCHANGED serverVars

NextCoding == \E a \in CodingSubmissions : GradeCoding(CODING_FALLBACK, a)

SpecCoding == InitCoding /\ [][NextCoding]_vars

\* C7: per question, an empty or missing submission scores 0; a submission
\* longer than 20 characters after stripping that contains "def " or
\* "function " and contains "return" scores exactly 100; every score is one
\* of 0, 30, 40, 60, 70, 100.
C7_CodingScores ==
    ret # <<>> =>
        \A i \in 1..Len(args[1].questions) :
            LET qid == args[1].questions[i].id
                missing == qid \notin DOMAIN args[1].answers
                code == IF missing THEN <<>> ELSE args[1].answers[qid]
                score == ret[1].details[i].score
            IN  /\ ret[1].details[i].question_id = qid
                /\ (missing \/ code = <<>>) => score = 0
                /\ ( /\ Len(Strip(code)) > 20
                     /\ Contains(code, DefMarker) \/ Contains(code, FunctionMarker)
                     /\ Contains(code, ReturnMarker) ) => score = 100
                /\ score \in {0, 30, 40, 60, 70, 100}

\* C7 witness: one question answered with a long text holding a function
\* marker and a return (100 points), the other not answered (0 points).
C7_Witness ==
    /\ ret # <<>>
    /\ DOMAIN args[1].answers = {"code1"}
    /\ Len(Strip(args[1].answers["code1"])) > 20
    /\ Contains(args[1].answers["code1"], FunctionMarker)
    /\ Contains(args[1].answers["code1"], ReturnMarker)
    /\ ret[1].details[1].score = 100
    /\ ret[1].details[2].score = 0

(***************************************************************************)
(* calculate_strength_score (specification SpecScore).  The score is in    *)
(* hundredths: every term is a multiple of 0.25, so round(score, 2) keeps  *)
(* the value and the hundredths are exact.                                 *)
(***************************************************************************)
Min2(a, b) == IF a < b THEN a ELSE b

calculate_strength_score_Subtracts(tech_stacks, education, experience) ==
    LET score == Min2(Len(tech_stacks) * 50, 400)
               + Min2(Len(education) * 100, 300)
               - Min2(Len(experience) * 75, 300)
    IN  Min2(score, 1000)

calculate_strength_score(tech_stacks, education, experience) ==
    LET score == Min2(Len(tech_stacks) * 50, 400)
               + Min2(Len(education) * 100, 300)
               + Min2(Len(experience) * 75, 300)
    IN  Min2(score, 1000)

Entry == "entry"   \* a list element; the score reads only the lengths

InitScore ==
    /\ api_key_set = FALSE
    /\ ServerIdle
    /\ args = <<>>
    /\ ret = <<>>

ScoreLists ==
    {[i \in 1..n |-> Entry] : n \in 0..MaxListLen}

CalculateStrength(t, e, w) ==
    /\ ret = <<>>
    /\ args' = <<[tech_stacks |-> t, education |-> e, experience |-> w]>>
    /\ ret' = <<calculate_strength_score(t, e, w)>>
    /\ UNCHANGED serverVars

NextScore == \E t \in ScoreLists, e \in ScoreLists, w \in ScoreLists : CalculateStrength(t, e, w)

SpecScore == InitScore /\ [][NextScore]_vars

\* C9: the strength score lies within 0..10, and one more entry in any one
\* of the three lists, the other two unchanged, never gives a lower score.
C9_StrengthBoundedMonotone ==
    ret # <<>> =>
        LET t == args[1].tech_stacks
            e == args[1].education
            w == args[1].experience
        IN  /\ 0 <= ret[1] /\ ret[1] <= 1000
            /\ calculate_strength_score(Append(t, Entry), e, w) >= ret[1]
            /\ calculate_strength_score(t, Append(e, Entry), w) >= ret[1]
            /\ calculate_strength_score(t, e, Append(w, Entry)) >= ret[1]

\* C9 witness: every list is past its cap and the score is the maximum, 10.
C9_Witness ==
    /\ ret # <<>>
    /\ Len(args[1].tech_stacks) > 8
    /\ Len(args[1].education) > 3
    /\ Len(args[1].experience) > 4
    /\ ret[1] = 1000

(***************************************************************************)
(* calculate_job_match (specification SpecMatch).  matching and missing    *)
(* are kept as sets: the code sorts them, the order is not modelled.       *)
(***************************************************************************)
Skill_Git == <<"G", "i", "t">>
Skill_git == <<"g", "i", "t">>
Skill_GIT_padded == <<" ", "G", "I", "T">>
Skill_Go == <<"G", "o">>
Skill_go == <<"g", "o">>

SkillNames == {Skill_Git, Skill_git, Skill_GIT_padded, Skill_Go, Skill_go}

calculate_job_match_ListLength(user_skills, job_skills) ==
    LET u == {Lower(user_skills[i]) : i \in 1..Len(user_skills)}
        j == {Lower(job_skills[i]) : i \in 1..Len(job_skills)}
        matching == u \cap j
    IN  [match_pct |-> IF Len(job_skills) # 0
                       THEN Frac(Cardinality(matching) * 100, Len(job_skills))
                       ELSE Frac(0, 1),
         matching |-> matching,
         missing |-> j \ u]

calculate_job_match(user_skills, job_skills) ==
    LET u == {Lower(Strip(user_skills[i])) : i \in 1..Len(user_skills)}
        j == {Lower(Strip(job_skills[i])) : i \in 1..Len(job_skills)}
        matching == u \cap j
    IN  [match_pct |-> IF j # {}
                       THEN Frac(Cardinality(matching) * 100, Cardinality(j))
                       ELSE Frac(0, 1),
         matching |-> matching,
         missing |-> j \ u]

InitMatch ==
    /\ api_key_set = FALSE
    /\ ServerIdle
    /\ args = <<>>
    /\ ret = <<>>

CalculateJobMatch(user_skills, job_skills) ==
    /\ ret = <<>>
    /\ args' = <<[user_skills |-> user_skills, job_skills |-> job_skills]>>
    /\ ret' = <<calculate_job_match(user_skills, job_skills)>>
    /\ UNCHANGED serverVars

NextMatch ==
    \E u \in SeqsUpTo(SkillNames, MaxSkills), j \in SeqsUpTo(SkillNames, MaxSkills) :
        CalculateJobMatch(u, j)

SpecMatch == InitMatch /\ [][NextMatch]_vars

\* every required skill occurs in the user's list, compared case-insensitively
UserHasAllRequired ==
    \A i \in 1..Len(args[1].job_skills) :
        \E k \in 1..Len(args[1].user_skills) :
            Lower(args[1].user_skills[k]) = Lower(args[1].job_skills[i])

\* C10: the match percentage lies within 0..100, is 0 when the job requires
\* no skill, and is exactly 100 when every required skill occurs in the
\* user's list compared case-insensitively (duplicates and mixed case allowed).
C10_MatchPercentage ==
    ret # <<>> =>
        LET pct == ret[1].match_pct
        IN  /\ pct.d > 0 /\ 0 <= pct.n /\ pct.n <= 100 * pct.d
            /\ args[1].job_skills = <<>> => pct.n = 0
            /\ (args[1].job_skills # <<>> /\ UserHasAllRequired) => pct.n = 100 * pct.d

\* C10 witness: the job lists one skill twice in different case, the user has
\* it once in a third spelling, and the match is 100.
C10_Witness ==
    /\ ret # <<>>
    /\ args[1].job_skills = <<Skill_Git, Skill_git>>
    /\ args[1].user_skills = <<Skill_git>>
    /\ ret[1].match_pct.n = 100 * ret[1].match_pct.d

(***************************************************************************)
(* The job catalog and get_job_recommendations.  Of a job the model keeps  *)
(* the id and the required skills (title, company and the other fields are *)
(* only passed through).                                                   *)
(***************************************************************************)
Skill_Python == <<"P", "y", "t", "h", "o", "n">>
Skill_Qiskit == <<"Q", "i", "s", "k", "i", "t">>
Skill_MachineLearning == <<"M", "a", "c", "h", "i", "n", "e", " ", "L", "e", "a", "r", "n", "i", "n", "g">>
Skill_LinearAlgebra == <<"L", "i", "n", "e", "a", "r", " ", "A", "l", "g", "e", "b", "r", "a">>
Skill_QuantumComputing == <<"Q", "u", "a", "n", "t", "u", "m", " ", "C", "o", "m", "p", "u", "t", "i", "n", "g">>
Skill_Physics == <<"P", "h", "y", "s", "i", "c", "s">>
Skill_CPlusPlus == <<"C", "+", "+">>
Skill_Mathematics == <<"M", "a", "t", "h", "e", "m", "a", "t", "i", "c", "s">>
Skill_Research == <<"R", "e", "s", "e", "a", "r", "c", "h">>
Skill_JavaScript == <<"J", "a", "v", "a", "S", "c", "r", "i", "p", "t">>
Skill_APIs == <<"A", "P", "I", "s">>
Skill_MATLAB == <<"M", "A", "T", "L", "A", "B">>

Job(id, required_skills) == [id |-> id, required_skills |-> required_skills]

QUANTUM_JOBS ==
    << Job("qjob1", <<Skill_Python, Skill_Qiskit, Skill_MachineLearning, Skill_LinearAlgebra, Skill_QuantumComputing>>),
       Job("qjob2", <<Skill_Physics, Skill_Python, Skill_CPlusPlus, Skill_Mathematics, Skill_Research, Skill_QuantumComputing>>),
       Job("qjob3", <<Skill_Python, Skill_JavaScript, Skill_QuantumComputing, <<"C", "l", "o", "u", "d", " ", "C", "o", "m", "p", "u", "t", "i", "n", "g">>, Skill_APIs>>),
       Job("qjob4", <<Skill_Physics, <<"E", "l", "e", "c", "t", "r", "o", "n", "i", "c", "s">>, Skill_Python, Skill_MATLAB, Skill_QuantumComputing>>),
       Job("qjob5", <<<<"P", "r", "o", "d", "u", "c", "t", " ", "M", "a", "n", "a", "g", "e", "m", "e", "n", "t">>, Skill_QuantumComputing, <<"B", "u", "s", "i", "n", "e", "s", "s", " ", "S", "t", "r", "a", "t", "e", "g", "y">>, Skill_Python, <<"C", "o", "m", "m", "u", "n", "i", "c", "a", "t", "i", "o", "n">>>>) >>

TopN == 3               \* get_job_recommendations: recommendations[:3]

\* round(match_percentage, 2), in hundredths of a percent
RoundedMatch(pct, up) == RoundDiv(pct.n * 100, pct.d, up)

\* JobRecommendation(job_id=..., match_percentage=round(..., 2), ...)
JobRecommendation(job, m, up) ==
    [job_id |-> job.id,
     match_percentage |-> RoundedMatch(m.match_pct, up),
     matching_skills |-> m.matching,
     missing_skills |-> m.missing]

\* the loop over QUANTUM_JOBS: the jobs from position i on that match, each
\* with its match
RECURSIVE MatchingJobs(_, _)
MatchingJobs(user_skills, i) ==
    IF i > Len(QUANTUM_JOBS) THEN <<>>
    ELSE LET m == calculate_job_match(user_skills, QUANTUM_JOBS[i].required_skills)
             rest == MatchingJobs(user_skills, i + 1)
         IN  IF m.match_pct.n > 0
             THEN <<[job |-> QUANTUM_JOBS[i], match |-> m]>> \o rest
             ELSE rest

\* s without its i-th element
RemoveAt(s, i) == SubSeq(s, 1, i - 1) \o SubSeq(s, i + 1, Len(s))

SortByMatch_Unsorted(recs) == recs

\* recommendations.sort(key=lambda x: x.match_percentage, reverse=True):
\* stable, equal keys keep their order
RECURSIVE SortByMatch(_)
SortByMatch(recs) ==
    IF recs = <<>> THEN <<>>
    ELSE LET best == SetMax({recs[i].match_percentage : i \in 1..Len(recs)})
             first == SetMin({i \in 1..Len(recs) : recs[i].match_percentage = best})
         IN  <<recs[first]>> \o SortByMatch(RemoveAt(recs, first))

\* get_job_recommendations: the list returned and stored, one
\* JobRecommendation for each matching job
Recommendations(matching, up) ==
    Take(SortByMatch([i \in 1..Len(matching) |->
                        JobRecommendation(matching[i].job, matching[i].match, up)]),
         TopN)

(***************************************************************************)
(* Handlers, one action per stretch of code between two awaits.            *)
(***************************************************************************)
\* what no handler of this section writes
fixedVars == <<api_key_set, db_enabled, now, response, due, args, ret>>
MaxRequests == 2        \* requests received in one run

\* a connection is free and a request arrives
Accept(s) ==
    /\ inflight[s].pc = "idle"
    /\ started < MaxRequests
    /\ started' = started + 1

\* the handler awaits: it keeps its locals and gives up control
Suspend(s, r, pc) ==
    /\ inflight' = [inflight EXCEPT ![s] = [r EXCEPT !.pc = pc]]
    /\ UNCHANGED done

\* the handler returns, or raises the HTTPException of this status code
Finish(s, r, code, body) ==
    /\ inflight' = [inflight EXCEPT ![s] = NoRequest]
    /\ done' = [r EXCEPT !.pc = "done", !.code = code, !.body = body]

UsesChatService_Always == TRUE

\* ... if MISTRAL_API_KEY else ...: the handler calls the chat service
UsesChatService == api_key_set

Asked_Twice(r) == [r EXCEPT !.llm_requests = r.llm_requests + 2]

\* mistral_chat_json: one client.post, no retry
Asked(r) == [r EXCEPT !.llm_requests = r.llm_requests + 1]

\* a call of the document store raised
DbRaised(r) == [r EXCEPT !.db_errors = r.db_errors + 1]

\* get_job_recommendations, up to the mirror write
GetJobRecommendations(s, user_id) ==
    /\ Accept(s)
    /\ LET r == Request("get_job_recommendations", user_id, <<>>)
       IN  IF user_id \notin DOMAIN resume_data
           THEN /\ Finish(s, r, 404, <<>>)
                /\ UNCHANGED job_recommendations_data
           ELSE \E matching \in {MatchingJobs(resume_data[user_id].tech_stacks, 1)} :
                \E up \in BOOLEAN :
                \E recs \in {Recommendations(matching, up)} :
                    /\ job_recommendations_data' = Put(job_recommendations_data, user_id, recs)
                    /\ IF db_enabled
                       THEN Suspend(s, [r EXCEPT !.body = <<recs>>], "db.recommendations.update_one")
                       ELSE Finish(s, r, 200, <<recs>>)
    /\ UNCHANGED <<fixedVars, test_sessions, test_results, resume_data, latest, db>>

\* get_job_recommendations, from the mirror write on: a failure is logged
GetJobRecommendationsMirror(s, ok) ==
    /\ inflight[s].op = "get_job_recommendations"
    /\ inflight[s].pc = "db.recommendations.update_one"
    /\ LET r == inflight[s]
       IN  Finish(s, IF ok THEN r ELSE DbRaised(r), 200, r.body)
    /\ UNCHANGED <<fixedVars, test_sessions, test_results, resume_data, latest,
                   job_recommendations_data, db, started>>

(***************************************************************************)
(* The heuristic resume parser.                                            *)
(***************************************************************************)

TECH_KEYWORDS ==
    << Skill_Python, Skill_JavaScript, <<"J", "a", "v", "a">>, Skill_CPlusPlus,
      <<"C", "#">>, Skill_Go, <<"R", "u", "s", "t">>, <<"R", "u", "b", "y">>, <<"P", "H", "P">>,
      <<"R", "e", "a", "c", "t">>, <<"A", "n", "g", "u", "l", "a", "r">>, <<"V", "u", "e">>, <<"N", "o", "d", "e", ".", "j", "s">>,
      <<"D", "j", "a", "n", "g", "o">>, <<"F", "l", "a", "s", "k">>, <<"F", "a", "s", "t", "A", "P", "I">>, <<"S", "p", "r", "i", "n", "g">>,
      <<"D", "o", "c", "k", "e", "r">>, <<"K", "u", "b", "e", "r", "n", "e", "t", "e", "s">>, <<"A", "W", "S">>, <<"A", "z", "u", "r", "e">>,
      <<"G", "C", "P">>, Skill_Git, <<"L", "i", "n", "u", "x">>, <<"S", "Q", "L">>, <<"M", "o", "n", "g", "o", "D", "B">>,
      Skill_MachineLearning, <<"A", "I">>, <<"D", "e", "e", "p", " ", "L", "e", "a", "r", "n", "i", "n", "g">>,
      <<"T", "e", "n", "s", "o", "r", "F", "l", "o", "w">>, <<"P", "y", "T", "o", "r", "c", "h">>, <<"P", "a", "n", "d", "a", "s">>, <<"N", "u", "m", "P", "y">>,
      Skill_QuantumComputing, Skill_Qiskit, <<"C", "i", "r", "q">>,
      Skill_LinearAlgebra, <<"S", "t", "a", "t", "i", "s", "t", "i", "c", "s">>, Skill_MATLAB,
      <<"B", "l", "o", "c", "k", "c", "h", "a", "i", "n">>, <<"D", "e", "v", "O", "p", "s">>, <<"C", "I", "/", "C", "D">>, <<"T", "e", "r", "r", "a", "f", "o", "r", "m">>,
      <<"A", "n", "s", "i", "b", "l", "e">> >>

education_keywords ==
    << <<"B", "a", "c", "h", "e", "l", "o", "r">>,
       <<"M", "a", "s", "t", "e", "r">>,
       <<"P", "h", "D">>,
       <<"U", "n", "i", "v", "e", "r", "s", "i", "t", "y">>,
       <<"C", "o", "l", "l", "e", "g", "e">>,
       <<"D", "e", "g", "r", "e", "e">> >>

work_keywords ==
    << <<"E", "n", "g", "i", "n", "e", "e", "r">>,
       <<"D", "e", "v", "e", "l", "o", "p", "e", "r">>,
       <<"M", "a", "n", "a", "g", "e", "r">>,
       <<"A", "n", "a", "l", "y", "s", "t">>,
       <<"S", "c", "i", "e", "n", "t", "i", "s", "t">>,
       <<"R", "e", "s", "e", "a", "r", "c", "h", "e", "r">>,
       <<"I", "n", "t", "e", "r", "n">> >>

EducationMinLen == 12   \* parse_education: len(line.strip()) < 12 is skipped
ExperienceMinLen == 15  \* parse_work_experience: len(line.strip()) < 15 is skipped
MaxEducation == 4       \* parse_education: education[:4]
MaxExperience == 6      \* parse_work_experience: exp[:6]

\* random.randint(1, 4)
Durations == 1..4

\* text.splitlines(), for "\n" line ends
RECURSIVE SplitLines(_)
SplitLines(text) ==
    IF text = <<>> THEN <<>>
    ELSE LET ends == {i \in 1..Len(text) : text[i] = "\n"}
         IN  IF ends = {} THEN <<text>>
             ELSE <<SubSeq(text, 1, SetMin(ends) - 1)>>
                      \o SplitLines(SubSeq(text, SetMin(ends) + 1, Len(text)))

\* tech.upper() for tech in TECH_KEYWORDS
TECH_KEYWORDS_upper == [i \in 1..Len(TECH_KEYWORDS) |-> Upper(TECH_KEYWORDS[i])]

\* parse_tech_stacks
parse_tech_stacks(text) ==
    LET text_upper == Upper(text)
    IN  Sorted({TECH_KEYWORDS[i] : i \in {k \in 1..Len(TECH_KEYWORDS) :
                                            Contains(text_upper, TECH_KEYWORDS_upper[k])}})

\* regex \w
WordChars == ToSet(UpperLetters) \cup ToSet(LowerLetters) \cup ToSet(Digits) \cup {"_"}

\* regex \b before position i of s
WordBoundary(s, i) ==
    LET before == i > 1 /\ s[i - 1] \in WordChars
        after == i <= Len(s) /\ s[i] \in WordChars
    IN  before # after

DigitValue(c) == IndexOf(Digits, c) - 1

\* the regex \b(19\d{2}|20\d{2})\b matches at position i of s
YearAt(s, i) ==
    /\ i + 3 <= Len(s)
    /\ <<s[i], s[i + 1]>> \in {<<"1", "9">>, <<"2", "0">>}
    /\ s[i + 2] \in ToSet(Digits)
    /\ s[i + 3] \in ToSet(Digits)
    /\ WordBoundary(s, i)
    /\ WordBoundary(s, i + 4)

\* extract_years, as a set (the callers take the maximum)
extract_years(s) ==
    {1000 * DigitValue(s[i]) + 100 * DigitValue(s[i + 1])
        + 10 * DigitValue(s[i + 2]) + DigitValue(s[i + 3]) :
     i \in {k \in 1..Len(s) : YearAt(s, k)}}

\* max(years) if years else None: <<>> is None
MaxYear(line) ==
    LET years == extract_years(line) IN IF years = {} THEN <<>> ELSE <<SetMax(years)>>

\* any(k.lower() in line.lower() for k in keywords)
AnyKeyword(keywords, line) ==
    \E i \in 1..Len(keywords) : Contains(Lower(line), Lower(keywords[i]))

\* the lines a parser keeps: long enough and holding a keyword
Qualifying(text, min_len, keywords) ==
    SelectSeq(SplitLines(text),
              LAMBDA line : Len(Strip(line)) >= min_len /\ AnyKeyword(keywords, line))

\* parse_education
parse_education(text) ==
    LET lines == Qualifying(text, EducationMinLen, education_keywords)
    IN  Take([i \in 1..Len(lines) |->
                 [description |-> Strip(lines[i]), year |-> MaxYear(lines[i])]],
             MaxEducation)

\* parse_work_experience; draws[i] is what random.randint returns for the
\* i-th line kept
parse_work_experience(text, draws) ==
    LET lines == Qualifying(text, ExperienceMinLen, work_keywords)
    IN  Take([i \in 1..Len(lines) |->
                 [role |-> Strip(lines[i]), year |-> MaxYear(lines[i]),
                  duration |-> draws[i]]],
             MaxExperience)

\* the random draws one call of parse_work_experience can make
Draws(text) ==
    [1..Len(Qualifying(text, ExperienceMinLen, work_keywords)) -> Durations]

(***************************************************************************)
(* Extraction by the chat service.  A JSON value of a reply is a pair      *)
(* <<type, content>>: <<"list", elements>> (the elements JSON values),     *)
(* <<"str", characters>>, <<"int", n>>, None, or <<"dict", items>> with    *)
(* the <<key, value>> items in the order of the text, the keys being       *)
(* sequences of characters and distinct.                                   *)
(***************************************************************************)
None == <<"none", <<>>>>
List(elements) == <<"list", elements>>
Str(characters) == <<"str", characters>>
Num(n) == <<"int", n>>
Dict(items) == <<"dict", items>>

\* bool(v): None, [], "", 0 and {} are falsy
Truthy(v) == IF v[1] = "int" THEN v[2] # 0 ELSE v[2] # <<>>

\* the Python value of a JSON value: a dict is a function of its keys
RECURSIVE ToPython(_)
ToPython(v) ==
    CASE v[1] = "none" -> NoneStr
      [] v[1] = "list" -> [i \in 1..Len(v[2]) |-> ToPython(v[2][i])]
      [] v[1] = "dict" -> [k \in Keys(v[2]) |-> ToPython(Item(v[2], k))]
      [] OTHER -> v[2]

\* a or b
Or(a, b) == IF Truthy(a) THEN a ELSE b

\* v if isinstance(v, list) else []
ListOrEmpty(v) == IF v[1] = "list" THEN v[2] ELSE <<>>

\* the reply of the chat service to the extraction prompt
ResumeReply(kind, data) == [kind |-> kind, data |-> data]

\* mistral_extract_resume: <<>> is None
mistral_extract_resume(reply) ==
    IF ~ChatReturnsDict(reply) THEN <<>>
    ELSE LET data == reply.data
             tech == Or(Get(data, "tech_stacks", None), Or(Get(data, "skills", None), List(<<>>)))
             edu == Or(Get(data, "education", None), List(<<>>))
             exp == Or(Get(data, "work_experience", None),
                       Or(Get(data, "experience", None), List(<<>>)))
         IN  <<[tech_stacks |-> ListOrEmpty(tech),
                education |-> ListOrEmpty(edu),
                work_experience |-> ListOrEmpty(exp)]>>

(***************************************************************************)
(* upload_resume.  Of an uploaded file the model keeps the content type,   *)
(* the length of the content in bytes, whether pdfplumber / python-docx    *)
(* can read it, and the text they extract.                                 *)
(***************************************************************************)
MaxUploadBytes == 10485760   \* 10 * 1024 * 1024

SupportedTypes ==
    {"application/pdf",
     "application/vnd.openxmlformats-officedocument.wordprocessingml.document",
     "application/msword",
     "text/plain"}

File(content_type, size, readable, text) ==
    [content_type |-> content_type, size |-> size, readable |-> readable, text |-> text]

UploadRejection_NoSizeLimit(file) ==
    IF file.content_type \notin SupportedTypes THEN 400
    ELSE IF file.size = 0 THEN 400
    ELSE IF file.content_type # "text/plain" /\ ~file.readable THEN 400
    ELSE 0

\* the HTTPException upload_resume raises before any parsing; 0 when none
UploadRejection(file) ==
    IF file.content_type \notin SupportedTypes THEN 400
    ELSE IF file.size = 0 THEN 400
    ELSE IF file.size > MaxUploadBytes THEN 400
    ELSE IF file.content_type # "text/plain" /\ ~file.readable THEN 400
    ELSE 0

\* ResumeAnalysis(...).dict(); the uuid and the timestamp are left out
ResumeAnalysis(user_id, tech_stacks, education, work_experience) ==
    [user_id |-> user_id,
     tech_stacks |-> tech_stacks,
     education |-> education,
     work_experience |-> work_experience,
     strength_score |-> calculate_strength_score(tech_stacks, education, work_experience)]

\* the texts of the files uploaded in the model
ResumeText1 ==
    <<"G", "i", "t", " ", "G", "o", "\n",
       "P", "h", "D", " ", "a", "t", " ", "M", "I", "T", " ", "2", "0", "1", "9", "\n",
       "I", "n", "t", "e", "r", "n", " ", "a", "t", " ", "I", "B", "M", " ", "2", "0", "2", "0">>

ResumeText2 == <<"P", "y", "t", "h", "o", "n", " ", "Q", "i", "s", "k", "i", "t">>

\* a text in which the heuristic parser finds nothing
ResumeText3 == <<"H", "e", "l", "l", "o">>

ResumeTexts == {ResumeText1, ResumeText2, ResumeText3}

\* the heuristic parser on the texts of the model, computed once
Heuristics ==
    [text \in ResumeTexts |->
        [tech_stacks |-> parse_tech_stacks(text),
         education |-> parse_education(text),
         work_experience |-> [draws \in Draws(text) |-> parse_work_experience(text, draws)]]]

\* the elements of a list of JSON values, and their types
Plain(list) == [i \in 1..Len(list) |-> list[i][2]]
ElementTypes(list) == {list[i][1] : i \in 1..Len(list)}

\* str(n)
RECURSIVE IntToStr(_)
IntToStr(n) ==
    IF n < 0 THEN <<"-">> \o IntToStr(-n)
    ELSE IF n < 10 THEN <<Digits[n + 1]>>
    ELSE IntToStr(n \div 10) \o <<Digits[(n % 10) + 1]>>

\* dict(v) takes each element of v as a key and a value: <<>> when x is not
\* an iterable of two (ValueError, TypeError), else <<<<key, value>>>>.  A str
\* of two characters and a dict of two keys are such iterables.
PairOf(x) ==
    CASE x[1] = "list" /\ Len(x[2]) = 2 -> <<<<x[2][1], x[2][2]>>>>
      [] x[1] = "str" /\ Len(x[2]) = 2 -> <<<<Str(<<x[2][1]>>), Str(<<x[2][2]>>)>>>>
      [] x[1] = "dict" /\ Len(x[2]) = 2 -> <<<<Str(x[2][1][1]), Str(x[2][2][1])>>>>
      [] OTHER -> <<>>

\* the items of dict(pairs), a later value of a key replacing the earlier
RECURSIVE DictOfPairs(_)
DictOfPairs(pairs) ==
    IF pairs = <<>> THEN <<>>
    ELSE LET last == pairs[Len(pairs)]
         IN  SetItem(DictOfPairs(SubSeq(pairs, 1, Len(pairs) - 1)), last[1], last[2])

\* pydantic.v1 dict_validator: v if it is a dict, else dict(v); <<>> when
\* dict(v) raises TypeError (v or an element is not iterable, a key cannot
\* be hashed) or ValueError (an element is not of length two), else
\* <<items>> with the keys as JSON values
DictOf(v) ==
    CASE v[1] = "dict" -> <<[i \in 1..Len(v[2]) |-> <<Str(v[2][i][1]), v[2][i][2]>>]>>
      [] v[1] = "str" -> IF v[2] = <<>> THEN <<<<>>>> ELSE <<>>
      [] v[1] = "list" ->
            IF \A i \in 1..Len(v[2]) :
                  /\ PairOf(v[2][i]) # <<>>
                  /\ PairOf(v[2][i])[1][1][1] \notin {"list", "dict"}
            THEN <<DictOfPairs([i \in 1..Len(v[2]) |-> PairOf(v[2][i])[1]])>>
            ELSE <<>>
      [] OTHER -> <<>>

\* one element of education or work_experience as Dict[str, Any]: <<>> when
\* the validation raises, else <<the dict stored>>.  strict (pydantic 2):
\* only a dict is one; otherwise (pydantic.v1) dict(v) is tried and the
\* keys are validated as str (a str as it is, an int as str(n)), in the
\* order of the items
AsDict(v, strict) ==
    IF v[1] = "dict" THEN <<ToPython(v)>>
    ELSE IF strict \/ DictOf(v) = <<>> THEN <<>>
    ELSE LET items == DictOf(v)[1]
             KeyStr(k) == IF k[1] = "int" THEN IntToStr(k[2]) ELSE k[2]
             at(k) == SetMax({i \in 1..Len(items) : KeyStr(items[i][1]) = k})
         IN  IF \E i \in 1..Len(items) : items[i][1][1] \notin {"str", "int"}
             THEN <<>>
             ELSE <<[k \in {KeyStr(items[i][1]) : i \in 1..Len(items)} |->
                       ToPython(items[at(k)][2])]>>

\* a list of dicts as the analysis holds it
AsDicts(list) == [i \in 1..Len(list) |-> AsDict(list[i], FALSE)[1]]

\* sorted(S) for a set S of int
RECURSIVE SortedInts(_)
SortedInts(S) == IF S = {} THEN <<>> ELSE <<SetMin(S)>> \o SortedInts(S \ {SetMin(S)})

\* sorted(set([*parse_tech_stacks(text), *extracted.get("tech_stacks", [])]))
\* raises TypeError: an element that cannot be hashed, or two that cannot be
\* ordered
TechRaises(parsed_tech, tech) ==
    \/ ElementTypes(tech) \cap {"dict", "list"} # {}
    \/ Cardinality(ElementTypes(tech) \cup (IF parsed_tech = <<>> THEN {} ELSE {"str"})) > 1

\* ResumeAnalysis(...) raises ValidationError; strict: the installed pydantic
\* converts nothing (pydantic 2), otherwise it is pydantic.v1, which turns
\* an int into a str and tries dict(v) on what is no dict
ValidationRaises(tech, education, work_experience, strict) ==
    \/ ElementTypes(tech) \ (IF strict THEN {"str"} ELSE {"str", "int"}) # {}
    \/ \E i \in 1..Len(education) : AsDict(education[i], strict) = <<>>
    \/ \E i \in 1..Len(work_experience) : AsDict(work_experience[i], strict) = <<>>

\* upload_resume: building the analysis raises, which the handler turns into
\* HTTP 500
AnalysisRaises(text, extracted, strict) ==
    /\ extracted # <<>>
    /\ LET e == extracted[1]
       IN  \/ TechRaises(Heuristics[text].tech_stacks, e.tech_stacks)
           \/ ValidationRaises(e.tech_stacks, e.education, e.work_experience, strict)

BuildAnalysis_NoFallback(user_id, text, extracted, draws) ==
    IF extracted # <<>>
    THEN ResumeAnalysis(user_id, Plain(extracted[1].tech_stacks),
                        AsDicts(extracted[1].education),
                        AsDicts(extracted[1].work_experience))
    ELSE ResumeAnalysis(user_id, <<>>, <<>>, <<>>)

\* upload_resume: the analysis of one upload
BuildAnalysis(user_id, text, extracted, draws) ==
    LET parsed == Heuristics[text]
    IN  IF extracted # <<>>
        THEN LET e == extracted[1]
             IN  ResumeAnalysis(user_id,
                     IF "int" \in ElementTypes(e.tech_stacks)
                     THEN LET ints == SortedInts(ToSet(Plain(e.tech_stacks)))
                          IN  [i \in 1..Len(ints) |-> IntToStr(ints[i])]
                     ELSE Sorted(ToSet(parsed.tech_stacks) \cup ToSet(Plain(e.tech_stacks))),
                     IF e.education # <<>> THEN AsDicts(e.education) ELSE parsed.education,
                     IF e.work_experience # <<>> THEN AsDicts(e.work_experience)
                     ELSE parsed.work_experience[draws])
        ELSE ResumeAnalysis(user_id, parsed.tech_stacks, parsed.education,
                            parsed.work_experience[draws])

StoredAnalysis_Merged(user_id, analysis) ==
    IF user_id \in DOMAIN resume_data
    THEN Put(resume_data, user_id, [analysis EXCEPT !.education = resume_data[user_id].education])
    ELSE Put(resume_data, user_id, analysis)

StoredAnalysis_KeepsFirst(user_id, analysis) ==
    IF user_id \in DOMAIN resume_data THEN resume_data
    ELSE Put(resume_data, user_id, analysis)

\* resume_data[user_id] = analysis.dict()
StoredAnalysis(user_id, analysis) == Put(resume_data, user_id, analysis)

\* upload_resume, from the extraction result to the mirror write
StoreAnalysis(s, r, extracted, draws) ==
    LET file == r.input[1]
        analysis == BuildAnalysis(r.user_id, file.text, extracted, draws)
    IN  \E strict \in BOOLEAN :
            IF AnalysisRaises(file.text, extracted, strict)
            THEN \* except Exception: HTTPException(500)
                 /\ Finish(s, r, 500, <<>>)
                 /\ UNCHANGED <<resume_data, latest>>
            ELSE /\ resume_data' = StoredAnalysis(r.user_id, analysis)
                 /\ latest' = Put(latest, r.user_id,
                                  [text |-> file.text, extracted |-> extracted, draws |-> draws,
                                   nth |-> IF r.user_id \in DOMAIN latest
                                           THEN latest[r.user_id].nth + 1 ELSE 1])
                 /\ IF db_enabled
                    THEN Suspend(s, [r EXCEPT !.body = <<analysis>>], "db.resumes.update_one")
                    ELSE Finish(s, r, 200, <<analysis>>)

\* upload_resume, up to content = await file.read()
UploadResume(s, user_id, file) ==
    /\ Accept(s)
    /\ LET r == Request("upload_resume", user_id, <<file>>)
       IN  IF file.content_type \notin SupportedTypes
           THEN Finish(s, r, 400, <<>>)
           ELSE Suspend(s, r, "file.read")
    /\ UNCHANGED <<fixedVars, test_sessions, test_results, resume_data, latest,
                   job_recommendations_data, db>>

\* upload_resume, from the content read to the request to the chat service
UploadResumeRead(s) ==
    /\ inflight[s].op = "upload_resume"
    /\ inflight[s].pc = "file.read"
    /\ LET r == inflight[s]
           file == r.input[1]
       IN  IF UploadRejection(file) # 0
           THEN /\ Finish(s, r, UploadRejection(file), <<>>)
                /\ UNCHANGED <<resume_data, latest>>
           ELSE IF UsesChatService
           THEN /\ Suspend(s, Asked(r), "mistral_chat_json")
                /\ UNCHANGED <<resume_data, latest>>
           ELSE \E draws \in DOMAIN Heuristics[file.text].work_experience : StoreAnalysis(s, r, <<>>, draws)
    /\ UNCHANGED <<fixedVars, test_sessions, test_results, job_recommendations_data,
                   db, started>>

\* upload_resume, once the chat service has answered or failed
UploadResumeExtracted(s, reply) ==
    /\ inflight[s].op = "upload_resume"
    /\ inflight[s].pc = "mistral_chat_json"
    /\ LET extracted == mistral_extract_resume(reply)
           r == [inflight[s] EXCEPT !.reply = <<reply>>, !.llm_failed = (extracted = <<>>)]
       IN  \E draws \in DOMAIN Heuristics[r.input[1].text].work_experience : StoreAnalysis(s, r, extracted, draws)
    /\ UNCHANGED <<fixedVars, test_sessions, test_results, job_recommendations_data,
                   db, started>>

UploadResumeMirror_Propagates(s, ok) ==
    /\ inflight[s].op = "upload_resume"
    /\ inflight[s].pc = "db.resumes.update_one"
    /\ LET r == inflight[s]
       IN  /\ db' = IF ok THEN [db EXCEPT !.resumes = Put(@, r.user_id, r.body[1])] ELSE db
           /\ IF ok THEN Finish(s, r, 200, r.body) ELSE Finish(s, DbRaised(r), 500, <<>>)
    /\ UNCHANGED <<fixedVars, test_sessions, test_results, resume_data, latest,
                   job_recommendations_data, started>>

\* upload_resume, from the mirror write on: a failure is logged
UploadResumeMirror(s, ok) ==
    /\ inflight[s].op = "upload_resume"
    /\ inflight[s].pc = "db.resumes.update_one"
    /\ LET r == inflight[s]
       IN  /\ db' = IF ok THEN [db EXCEPT !.resumes = Put(@, r.user_id, r.body[1])] ELSE db
           /\ Finish(s, IF ok THEN r ELSE DbRaised(r), 200, r.body)
    /\ UNCHANGED <<fixedVars, test_sessions, test_results, resume_data, latest,
                   job_recommendations_data, started>>

\* get_resume_analysis, up to the mirror read
GetResumeAnalysis(s, user_id) ==
    /\ Accept(s)
    /\ LET r == Request("get_resume_analysis", user_id, <<>>)
       IN  IF user_id \in DOMAIN resume_data
           THEN Finish(s, r, 200, <<resume_data[user_id]>>)
           ELSE IF db_enabled
           THEN Suspend(s, r, "db.resumes.find_one")
           ELSE Finish(s, r, 404, <<>>)
    /\ UNCHANGED <<fixedVars, test_sessions, test_results, resume_data, latest,
                   job_recommendations_data, db>>

\* get_resume_analysis, from the mirror read on: the await is not inside a
\* try, an exception of the driver leaves the handler (500)
GetResumeAnalysisFound(s, ok) ==
    /\ inflight[s].op = "get_resume_analysis"
    /\ inflight[s].pc = "db.resumes.find_one"
    /\ LET r == inflight[s]
       IN  IF ~ok
           THEN /\ Finish(s, DbRaised(r), 500, <<>>)
                /\ UNCHANGED resume_data
           ELSE IF r.user_id \in DOMAIN db.resumes
           THEN /\ resume_data' = Put(resume_data, r.user_id, db.resumes[r.user_id])
                /\ Finish(s, r, 200, <<db.resumes[r.user_id]>>)
           ELSE /\ Finish(s, r, 404, <<>>)
                /\ UNCHANGED resume_data
    /\ UNCHANGED <<fixedVars, test_sessions, test_results, latest,
                   job_recommendations_data, db, started>>

(***************************************************************************)
(* upgrade_me.  Of a resource and a project the model keeps the skill they *)
(* are made for (the name, url and sentence are formatted from it).        *)
(***************************************************************************)
MinWeeks == 4           \* upgrade_me: max(4, ...)
WeeksPerSkill == 4      \* upgrade_me: len(missing) * 4
MaxProjects == 4        \* upgrade_me: missing[:4]

ROLE_REQUIREMENTS ==
    [role \in {"Quantum Software Engineer", "Quantum Research Scientist",
               "Quantum Applications Developer"} |->
        CASE role = "Quantum Software Engineer" ->
               <<Skill_Python, Skill_Qiskit, Skill_LinearAlgebra, Skill_QuantumComputing, Skill_Git>>
          [] role = "Quantum Research Scientist" ->
               <<Skill_Physics, Skill_Mathematics, Skill_Python, Skill_Research,
                 Skill_QuantumComputing>>
          [] role = "Quantum Applications Developer" ->
               <<Skill_Python, Skill_JavaScript, Skill_APIs, <<"S", "o", "f", "t", "w", "a", "r", "e", " ", "D", "e", "v", "e", "l", "o", "p", "m", "e", "n", "t">>,
                 Skill_QuantumComputing>>]

\* set(s.lower() for s in skills)
LowerSet(skills) == {Lower(skills[i]) : i \in 1..Len(skills)}

\* sorted(required - user_skills)
MissingSkills(tech_stacks, target_role) ==
    Sorted(LowerSet(ROLE_REQUIREMENTS[target_role]) \ LowerSet(tech_stacks))

EstimatedWeeks_NoFloor(missing) == Len(missing) * WeeksPerSkill

\* max(4, len(missing) * 4)
EstimatedWeeks(missing) ==
    IF Len(missing) * WeeksPerSkill > MinWeeks THEN Len(missing) * WeeksPerSkill ELSE MinWeeks

\* UpgradePlan(...)
UpgradePlan(tech_stacks, target_role) ==
    LET missing == MissingSkills(tech_stacks, target_role)
    IN  [target_role |-> target_role,
         missing_skills |-> missing,
         recommended_resources |-> [i \in 1..Len(missing) |-> [skill |-> missing[i]]],
         suggested_projects |-> Take(missing, MaxProjects),
         estimated_time_weeks |-> EstimatedWeeks(missing)]

\* upgrade_me
UpgradeMe(s, target_role, user_id) ==
    /\ Accept(s)
    /\ LET r == Request("upgrade_me", user_id, <<target_role>>)
       IN  IF user_id \notin DOMAIN resume_data THEN Finish(s, r, 404, <<>>)
           ELSE IF target_role \notin DOMAIN ROLE_REQUIREMENTS THEN Finish(s, r, 400, <<>>)
           ELSE Finish(s, r, 200, <<UpgradePlan(resume_data[user_id].tech_stacks, target_role)>>)
    /\ UNCHANGED <<fixedVars, test_sessions, test_results, resume_data, latest,
                   job_recommendations_data, db>>

(***************************************************************************)
(* start_test and submit_test, await by await.                             *)
(***************************************************************************)
\* start_test requests that have not stored their session yet
Generating == {s \in Slots : inflight[s].op = "start_test" /\ inflight[s].body = <<>>}

\* start_test, from the questions to the mirror write
CreateSession(s, r, gen) ==
    LET sess == TestSession(NewSessionId, r.user_id, gen.mcq_questions, gen.coding_questions)
    IN  /\ test_sessions' = Put(test_sessions, sess.id, StoredSession(sess))
        /\ IF db_enabled
           THEN Suspend(s, [r EXCEPT !.body = <<StoredSession(sess)>>], "db.tests.insert_one")
           ELSE Finish(s, r, 200, <<StoredSession(sess)>>)

\* start_test, up to the request to the chat service
StartTestRequest(s, user_id) ==
    /\ Accept(s)
    /\ Cardinality(DOMAIN test_sessions) + Cardinality(Generating) < MaxSessions
    /\ LET r == Request("start_test", user_id, <<>>)
       IN  IF UsesChatService
           THEN /\ Suspend(s, Asked(r), "mistral_chat_json")
                /\ UNCHANGED test_sessions
           ELSE CreateSession(s, r, Fallback)
    /\ UNCHANGED <<fixedVars, test_results, resume_data, latest, job_recommendations_data, db>>

\* start_test, once the chat service has answered or failed
StartTestGenerated(s, reply) ==
    /\ inflight[s].op = "start_test"
    /\ inflight[s].pc = "mistral_chat_json"
    /\ LET r == [inflight[s] EXCEPT !.reply = <<reply>>, !.llm_failed = ~ChatReturnsDict(reply)]
       IN  CreateSession(s, r, mistral_generate_questions(reply))
    /\ UNCHANGED <<fixedVars, test_results, resume_data, latest, job_recommendations_data,
                   db, started>>

\* insert_one(document): the driver puts an _id into the dict it is handed
\* when the dict has none
WithId(document) ==
    [f \in DOMAIN document \cup {"_id"} |->
        IF f \in DOMAIN document THEN document[f] ELSE "ObjectId"]

\* start_test, from the mirror write on: a failure is logged.  The dict
\* handed to insert_one is the one test_sessions holds; a call that raises
\* has put the _id into it or has not, depending on where it raised.
StartTestMirror(s, ok) ==
    /\ inflight[s].op = "start_test"
    /\ inflight[s].pc = "db.tests.insert_one"
    /\ LET r == inflight[s]
           id == r.body[1].id
       IN  /\ \E added \in (IF ok THEN {TRUE} ELSE BOOLEAN) :
                 test_sessions' = IF added
                                  THEN [test_sessions EXCEPT ![id] = WithId(@)]
                                  ELSE test_sessions
           /\ Finish(s, IF ok THEN r ELSE DbRaised(r), 200, r.body)
    /\ UNCHANGED <<fixedVars, test_results, resume_data, latest,
                   job_recommendations_data, db, started>>

\* submit_test, up to the first mirror write
SubmitTestRequest(s, session_id, mcq_answers, coding_answers) ==
    /\ Accept(s)
    /\ LET r == Request("submit_test", "none", <<session_id, mcq_answers, coding_answers>>)
       IN  IF session_id \notin DOMAIN test_sessions
           THEN /\ Finish(s, r, 404, <<>>)
                /\ UNCHANGED <<test_sessions, test_results>>
           ELSE LET session == test_sessions[session_id]
                    status == IF now > session.expires_at THEN "expired" ELSE session.status
                IN  IF ~HasAttributes(session)
                    THEN \* session.expires_at raises AttributeError: 500
                         /\ Finish(s, r, 500, <<>>)
                         /\ UNCHANGED <<test_sessions, test_results>>
                    ELSE IF status # "active"
                    THEN /\ test_sessions' = [test_sessions EXCEPT ![session_id].status = status]
                         /\ Finish(s, r, 400, <<>>)
                         /\ UNCHANGED test_results
                    ELSE \E up \in BOOLEAN :
                         LET result == BuildResult(session_id, session, mcq_answers,
                                                   coding_answers, up)
                         IN  /\ test_results' = SetItem(test_results, session_id, result)
                             /\ test_sessions' =
                                   [test_sessions EXCEPT ![session_id].status = "completed"]
                             /\ IF db_enabled
                                THEN Suspend(s, [r EXCEPT !.body = <<result>>],
                                             "db.results.insert_one")
                                ELSE Finish(s, r, 200, <<result>>)
    /\ UNCHANGED <<fixedVars, resume_data, latest, job_recommendations_data, db>>

\* submit_test, from the first mirror write on: when insert_one raises the
\* failure is logged and update_one is skipped.  The dict handed to
\* insert_one is the result test_results holds and the handler returns, so
\* the _id the driver adds shows in both.  No request is ever suspended
\* here, see SubmitTestRequest.
SubmitTestMirror(s, ok) ==
    /\ inflight[s].op = "submit_test"
    /\ inflight[s].pc = "db.results.insert_one"
    /\ LET r == inflight[s]
           id == r.input[1]
       IN  \E added \in (IF ok THEN {TRUE} ELSE BOOLEAN) :
           LET result == IF added THEN WithId(r.body[1]) ELSE r.body[1]
               after == [r EXCEPT !.body = <<result>>]
           IN  /\ test_results' = SetItem(test_results, id, result)
               /\ IF ok
                  THEN /\ db' = [db EXCEPT !.results = Append(@, result)]
                       /\ Suspend(s, after, "db.tests.update_one")
                  ELSE /\ db' = db
                       /\ Finish(s, DbRaised(after), 200, after.body)
    /\ UNCHANGED <<fixedVars, test_sessions, resume_data, latest,
                   job_recommendations_data, started>>

\* submit_test, from the second mirror write on: a failure is logged
SubmitTestStatusMirror(s, ok) ==
    /\ inflight[s].op = "submit_test"
    /\ inflight[s].pc = "db.tests.update_one"
    /\ LET r == inflight[s]
       IN  Finish(s, IF ok THEN r ELSE DbRaised(r), 200, r.body)
    /\ UNCHANGED <<fixedVars, test_sessions, test_results, resume_data, latest,
                   job_recommendations_data, db, started>>

(***************************************************************************)
(* get_test_history and get_profile_overview.  A result document carries   *)
(* user_id, total_score (hundredths) and timestamp (the instant of the     *)
(* clock; isoformat strings of one process order as their instants do).    *)
(***************************************************************************)
\* x.get("timestamp", ""): "" sorts before the isoformat string of every
\* instant, the instant 0 included
Timestamp(r) == IF "timestamp" \in DOMAIN r THEN r.timestamp ELSE -1

\* [r for r in ... if r["user_id"] == user_id]
RECURSIVE UserResults(_, _)
UserResults(results, user_id) ==
    IF results = <<>> THEN <<>>
    ELSE (IF Head(results).user_id = user_id THEN <<Head(results)>> ELSE <<>>)
         \o UserResults(Tail(results), user_id)

SortNewestFirst_Unsorted(results) == results

\* user_results.sort(key=lambda x: x.get("timestamp", ""), reverse=True):
\* stable, equal keys keep their order
RECURSIVE SortNewestFirst(_)
SortNewestFirst(results) ==
    IF results = <<>> THEN <<>>
    ELSE LET newest == SetMax({Timestamp(results[i]) : i \in 1..Len(results)})
             first == SetMin({i \in 1..Len(results) : Timestamp(results[i]) = newest})
         IN  <<results[first]>> \o SortNewestFirst(RemoveAt(results, first))

\* round(sum(scores) / len(scores), 2), in hundredths
AverageScore(results, up) ==
    RoundDiv(SumSeq([i \in 1..Len(results) |-> results[i].total_score]), Len(results), up)

\* get_test_history: the analytics of a history already sorted
Analytics(user_results, up) ==
    IF user_results # <<>>
    THEN [average_score |-> AverageScore(user_results, up),
          best_score |-> SetMax({user_results[i].total_score : i \in 1..Len(user_results)}),
          total_tests |-> Len(user_results),
          improvement_trend |->
              IF /\ Len(user_results) > 1
                 /\ user_results[1].total_score > user_results[Len(user_results)].total_score
              THEN "improving" ELSE "stable"]
    ELSE [average_score |-> 0, best_score |-> 0, total_tests |-> 0,
          improvement_trend |-> "no_data"]

\* get_test_history: the response for the results found
TestHistory(user_results, up) ==
    LET sorted == SortNewestFirst(user_results)
    IN  [test_history |-> sorted, analytics |-> Analytics(sorted, up)]

\* get_test_history, up to the mirror read
GetTestHistory(s, user_id) ==
    /\ Accept(s)
    /\ LET r == Request("get_test_history", user_id, <<>>)
           user_results == UserResults(Values(test_results), user_id)
       IN  IF user_results = <<>> /\ db_enabled
           THEN Suspend(s, r, "db.results.find")
           ELSE \E up \in BOOLEAN : Finish(s, r, 200, <<TestHistory(user_results, up)>>)
    /\ UNCHANGED <<fixedVars, test_sessions, test_results, resume_data, latest,
                   job_recommendations_data, db>>

\* get_test_history, from the mirror read on: a failure is logged and the
\* history stays empty
GetTestHistoryFound(s, ok) ==
    /\ inflight[s].op = "get_test_history"
    /\ inflight[s].pc = "db.results.find"
    /\ LET r == inflight[s]
       IN  IF ok
           THEN \E up \in BOOLEAN :
                    Finish(s, r, 200, <<TestHistory(UserResults(db.results, r.user_id), up)>>)
           ELSE Finish(s, DbRaised(r), 200, <<TestHistory(<<>>, FALSE)>>)
    /\ UNCHANGED <<fixedVars, test_sessions, test_results, resume_data, latest,
                   job_recommendations_data, db, started>>

\* get_profile_overview: test_performance of the results found
TestPerformance(user_test_results, up) ==
    IF user_test_results # <<>>
    THEN [average_score |-> AverageScore(user_test_results, up),
          total_tests |-> Len(user_test_results),
          last_score |-> user_test_results[1].total_score]
    ELSE [average_score |-> 0, total_tests |-> 0, last_score |-> 0]

\* get_profile_overview: the response; resume is <<>> (None) or <<analysis>>
Overview(resume, user_id, user_test_results, up) ==
    [resume |-> resume,
     available_jobs |-> Len(Get(job_recommendations_data, user_id, <<>>)),
     test_performance |-> TestPerformance(user_test_results, up)]

\* get_profile_overview, from the resume found to the read of the results
OverviewResults(s, r, resume) ==
    LET user_test_results == UserResults(Values(test_results), r.user_id)
        seen == [r EXCEPT !.body = <<Overview(resume, r.user_id, <<>>, FALSE)>>]
    IN  IF user_test_results = <<>> /\ db_enabled
        THEN Suspend(s, seen, "db.results.find")
        ELSE \E up \in BOOLEAN :
                 Finish(s, r, 200, <<Overview(resume, r.user_id, user_test_results, up)>>)

\* get_profile_overview, up to the first mirror read
GetProfileOverview(s, user_id) ==
    /\ Accept(s)
    /\ LET r == Request("get_profile_overview", user_id, <<>>)
       IN  IF user_id \in DOMAIN resume_data
           THEN OverviewResults(s, r, <<resume_data[user_id]>>)
           ELSE IF db_enabled
           THEN Suspend(s, r, "db.resumes.find_one")
           ELSE OverviewResults(s, r, <<>>)
    /\ UNCHANGED <<fixedVars, test_sessions, test_results, resume_data, latest,
                   job_recommendations_data, db>>

\* get_profile_overview, from the read of the resume on: the await is not
\* inside a try, an exception of the driver leaves the handler (500)
GetProfileOverviewResume(s, ok) ==
    /\ inflight[s].op = "get_profile_overview"
    /\ inflight[s].pc = "db.resumes.find_one"
    /\ LET r == inflight[s]
       IN  IF ~ok
           THEN Finish(s, DbRaised(r), 500, <<>>)
           ELSE IF r.user_id \in DOMAIN db.resumes
           THEN OverviewResults(s, r, <<db.resumes[r.user_id]>>)
           ELSE OverviewResults(s, r, <<>>)
    /\ UNCHANGED <<fixedVars, test_sessions, test_results, resume_data, latest,
                   job_recommendations_data, db, started>>

\* get_profile_overview, from the read of the results on: resume and
\* available_jobs are what the handler held before the await; a failure is
\* passed over and the results stay empty
GetProfileOverviewResults(s, ok) ==
    /\ inflight[s].op = "get_profile_overview"
    /\ inflight[s].pc = "db.results.find"
    /\ LET r == inflight[s]
           overview == r.body[1]
       IN  IF ok
           THEN \E up \in BOOLEAN :
                    Finish(s, r, 200,
                           <<[overview EXCEPT !.test_performance =
                                TestPerformance(UserResults(db.results, r.user_id), up)]>>)
           ELSE Finish(s, DbRaised(r), 200, <<overview>>)
    /\ UNCHANGED <<fixedVars, test_sessions, test_results, resume_data, latest,
                   job_recommendations_data, db, started>>

(***************************************************************************)
(* get_job_recommendations and upgrade_me on stored analyses               *)
(* (specification SpecRecs).  The analysis on file lists any subset of     *)
(* StoredSkills: names of the catalog and of the roles, some in several    *)
(* spellings.                                                              *)
(***************************************************************************)
Skill_python == <<"p", "y", "t", "h", "o", "n">>

StoredSkills ==
    {Skill_Python, Skill_python, Skill_Qiskit, <<" ", "P", "h", "y", "s", "i", "c", "s", " ">>, Skill_JavaScript,
     Skill_MATLAB, Skill_QuantumComputing, Skill_LinearAlgebra, Skill_Git}

SampleRoles == {"Quantum Software Engineer", "Quantum Chef"}

\* replies to the question prompt: the three of the session life cycle, one
\* that is no JSON, one with an MCQ without options and one with an answer
\* index int() refuses
QuizReplies ==
    SampleReplies \cup
    { Reply("unparsable", <<>>, <<>>),
      Reply("dict", <<RawMcq("q1", 0, <<"int", 1>>)>>, <<RawCode("c1")>>),
      Reply("dict", <<RawMcq("q1", 2, <<"bad", 0>>)>>, <<RawCode("c1")>>) }

InitRecs ==
    /\ api_key_set = FALSE
    /\ test_sessions = EmptyDict
    /\ test_results = <<>>
    /\ now = 0
    /\ response = Answer("none", 0, 0, "none", FALSE, FALSE)
    /\ due = {}
    /\ db_enabled \in BOOLEAN
    /\ \E skills \in SUBSET StoredSkills :
          resume_data = [u \in {"u1"} |-> ResumeAnalysis(u, Sorted(skills), <<>>, <<>>)]
    /\ job_recommendations_data = EmptyDict
    /\ db = EmptyDb
    /\ inflight = [s \in Slots |-> NoRequest]
    /\ done = NoRequest
    /\ started = 0
    /\ latest = EmptyDict
    /\ args = <<>>
    /\ ret = <<>>

NextRecs ==
    \/ \E u \in Users : GetJobRecommendations("a", u)
    \/ \E ok \in BOOLEAN : GetJobRecommendationsMirror("a", ok)
    \/ \E u \in Users, role \in DOMAIN ROLE_REQUIREMENTS \cup SampleRoles : UpgradeMe("a", role, u)

SpecRecs == InitRecs /\ [][NextRecs]_vars

\* get_job_recommendations answered 200
RecsAnswered == done.op = "get_job_recommendations" /\ done.code = 200

\* the match of a catalog job with the skills on file, as an exact fraction
TrueMatch(job) ==
    calculate_job_match(resume_data[done.user_id].tech_stacks, job.required_skills).match_pct

CatalogJob(job_id) == CHOOSE i \in 1..Len(QUANTUM_JOBS) : QUANTUM_JOBS[i].id = job_id

\* C11: for every stored resume analysis the list get_job_recommendations
\* returns has at most three entries, is in non-increasing order of
\* match_percentage, holds no job whose match is 0, and holds no job whose
\* match is lower than that of a catalog job with a positive match that was
\* left out.
C11_TopThreeRecommendations ==
    RecsAnswered =>
        LET recs == done.body[1]
            listed == {recs[i].job_id : i \in 1..Len(recs)}
        IN  /\ Len(recs) <= 3
            /\ \A i, j \in 1..Len(recs) :
                  i < j => recs[i].match_percentage >= recs[j].match_percentage
            /\ \A i \in 1..Len(recs) :
                  /\ recs[i].match_percentage > 0
                  /\ TrueMatch(QUANTUM_JOBS[CatalogJob(recs[i].job_id)]).n > 0
            /\ \A k \in 1..Len(QUANTUM_JOBS), i \in 1..Len(recs) :
                  LET out == TrueMatch(QUANTUM_JOBS[k])
                      in == TrueMatch(QUANTUM_JOBS[CatalogJob(recs[i].job_id)])
                  IN  (QUANTUM_JOBS[k].id \notin listed /\ out.n > 0)
                          => out.n * in.d <= in.n * out.d
            /\ job_recommendations_data[done.user_id] = recs

\* C11 witness: three jobs are listed, a later job of the catalog outranks an
\* earlier one, one job with a positive match is left out and one job does
\* not match at all.
C11_Witness ==
    /\ RecsAnswered
    /\ Len(done.body[1]) = 3
    /\ CatalogJob(done.body[1][1].job_id) > CatalogJob(done.body[1][2].job_id)
    /\ \E k \in 1..Len(QUANTUM_JOBS) :
          /\ TrueMatch(QUANTUM_JOBS[k]).n > 0
          /\ \A i \in 1..3 : done.body[1][i].job_id # QUANTUM_JOBS[k].id
    /\ \E k \in 1..Len(QUANTUM_JOBS) : TrueMatch(QUANTUM_JOBS[k]).n = 0

\* upgrade_me answered 200
UpgradeAnswered == done.op = "upgrade_me" /\ done.code = 200

\* C14: for a supported target role and a user with an analysis on file,
\* upgrade_me returns missing_skills equal to the role's required skills
\* minus the user's skills, compared case-insensitively, one learning
\* resource per missing skill, and estimated_time_weeks equal to the larger
\* of 4 and 4 times the number of missing skills.
C14_UpgradePlan ==
    UpgradeAnswered =>
        LET plan == done.body[1]
            required == ROLE_REQUIREMENTS[done.input[1]]
            mine == resume_data[done.user_id].tech_stacks
            lacking == {Lower(required[i]) : i \in 1..Len(required)}
                          \ {Lower(mine[i]) : i \in 1..Len(mine)}
            n == Len(plan.missing_skills)
        IN  /\ done.input[1] \in DOMAIN ROLE_REQUIREMENTS
            /\ ToSet(plan.missing_skills) = lacking
            /\ n = Cardinality(lacking)
            /\ Len(plan.recommended_resources) = n
            /\ \A i \in 1..n : plan.recommended_resources[i].skill = plan.missing_skills[i]
            /\ plan.estimated_time_weeks >= 4
            /\ plan.estimated_time_weeks >= 4 * n
            /\ plan.estimated_time_weeks \in {4, 4 * n}

\* C14 witness: the user has every skill of the role, one of them in another
\* case than the role spells it, and the plan still takes four weeks.
C14_Witness ==
    /\ UpgradeAnswered
    /\ done.body[1].missing_skills = <<>>
    /\ Skill_python \in ToSet(resume_data[done.user_id].tech_stacks)
    /\ Skill_Python \notin ToSet(resume_data[done.user_id].tech_stacks)
    /\ done.body[1].estimated_time_weeks = 4

(***************************************************************************)
(* The server, request by request (specification SpecStore): one           *)
(* connection, so a handler runs to its end before the next request.  The  *)
(* chat service and the document store answer or fail as they please.      *)
(***************************************************************************)
SampleFiles ==
    { File("image/png", 5, TRUE, <<>>),
      File("application/pdf", 0, TRUE, <<>>),
      File("application/msword", MaxUploadBytes + 1, TRUE, ResumeText2),
      File("text/plain", Len(ResumeText1), TRUE, ResumeText1),
      File("application/pdf", 2048, TRUE, ResumeText2) }

ExtractedJob ==
    Dict(<< <<<<"r", "o", "l", "e">>, Str(<<"P", "o", "s", "t", "d", "o", "c">>)>>,
            <<<<"y", "e", "a", "r">>, Num(2021)>>,
            <<<<"d", "u", "r", "a", "t", "i", "o", "n">>, Num(2)>> >>)

SampleResumeReplies ==
    { ResumeReply("error", EmptyDict),
      ResumeReply("unparsable", EmptyDict),
      ResumeReply("dict", [k \in {"skills", "education", "work_experience"} |->
                              CASE k = "skills" -> List(<<Str(Skill_Qiskit), Str(Skill_Git)>>)
                                [] k = "education" -> None
                                [] k = "work_experience" -> List(<<ExtractedJob>>)]) }

\* an analysis the document store holds since an earlier run of the server
MirrorDoc == ResumeAnalysis("u1", <<Skill_Python>>, <<>>, <<>>)

\* a result a previous run of the process mirrored
MirrorResult(session_id, user_id, total_score, timestamp) ==
    [session_id |-> session_id, user_id |-> user_id, total_score |-> total_score,
     timestamp |-> timestamp]

MirrorResults ==
    <<MirrorResult(7, "u1", 6000, 3), MirrorResult(8, "u2", 2550, 4),
      MirrorResult(9, "u1", 8266, 5)>>

\* the document store when the process starts
SampleDbs ==
    { EmptyDb,
      [EmptyDb EXCEPT !.resumes = [u \in {"u1"} |-> MirrorDoc]] }

InitStore ==
    /\ api_key_set \in BOOLEAN
    /\ test_sessions = EmptyDict
    /\ test_results = <<>>
    /\ now = 0
    /\ response = Answer("none", 0, 0, "none", FALSE, FALSE)
    /\ due = {}
    /\ db_enabled \in BOOLEAN
    /\ resume_data = EmptyDict
    /\ job_recommendations_data = EmptyDict
    /\ db \in (IF db_enabled THEN SampleDbs ELSE {EmptyDb})
    /\ inflight = [s \in Slots |-> NoRequest]
    /\ done = NoRequest
    /\ started = 0
    /\ latest = EmptyDict
    /\ args = <<>>
    /\ ret = <<>>

\* the uploads of a run: the first user sends any of the files, the second
\* the PDF
UploadInputs ==
    {<<"u1", f>> : f \in SampleFiles} \cup
    {<<"u2", f>> : f \in {g \in SampleFiles : g.content_type = "application/pdf"}}

\* the user whose analysis, recommendations, plan and tests are asked for
Readers == {"u1"}

NextStore ==
    \/ \E up \in UploadInputs : UploadResume("a", up[1], up[2])
    \/ UploadResumeRead("a")
    \/ \E reply \in SampleResumeReplies : UploadResumeExtracted("a", reply)
    \/ \E ok \in BOOLEAN : UploadResumeMirror("a", ok)
    \/ \E u \in Readers : GetJobRecommendations("a", u)
    \/ \E ok \in BOOLEAN : GetJobRecommendationsMirror("a", ok)
    \/ \E u \in Readers : GetResumeAnalysis("a", u)
    \/ \E ok \in BOOLEAN : GetResumeAnalysisFound("a", ok)
    \/ \E u \in Readers, role \in SampleRoles : UpgradeMe("a", role, u)
    \/ \E u \in Readers : StartTestRequest("a", u)
    \/ \E reply \in QuizReplies : StartTestGenerated("a", reply)
    \/ \E ok \in BOOLEAN : StartTestMirror("a", ok)

SpecStore == InitStore /\ [][NextStore]_vars

\* C12: after any sequence of successful upload_resume calls the in-memory
\* store holds exactly one analysis per user id, and for each user it equals
\* the analysis computed from that user's most recent upload alone: no skill,
\* education or experience entry of an earlier upload carries over.
C12_LatestUploadOnly ==
    /\ \A u \in DOMAIN resume_data : resume_data[u].user_id = u
    /\ \A u \in DOMAIN latest :
          /\ u \in DOMAIN resume_data
          /\ resume_data[u] =
                BuildAnalysis(u, latest[u].text, latest[u].extracted, latest[u].draws)

\* C12 witness: the second upload of a user is stored and lacks a skill and
\* the education entry of the first, which the mirror still holds because the
\* second mirror write failed.
C12_Witness ==
    /\ "u1" \in DOMAIN latest
    /\ latest["u1"].nth = 2
    /\ done.op = "upload_resume" /\ done.user_id = "u1" /\ done.code = 200
    /\ "u1" \in DOMAIN db.resumes
    /\ \E i \in 1..Len(db.resumes["u1"].tech_stacks) :
          db.resumes["u1"].tech_stacks[i] \notin ToSet(resume_data["u1"].tech_stacks)
    /\ db.resumes["u1"].education # <<>>
    /\ resume_data["u1"].education = <<>>

\* the request whose handler ran in this step: suspended again, or answered
Handled == IF inflight'["a"].pc # "idle" THEN inflight'["a"] ELSE done'

\* neither the in-memory store nor the mirror holds an analysis of the user
NoAnalysis(user_id) ==
    user_id \notin DOMAIN resume_data /\ user_id \notin DOMAIN db.resumes

\* C13: when no resume analysis exists for a user id, get_resume_analysis,
\* get_job_recommendations and upgrade_me each return 404 and none of them
\* creates or changes any entry of the resume, recommendation, session or
\* result stores.
C13_NoAnalysisIs404 ==
    [][ (/\ Handled.op \in {"get_resume_analysis", "get_job_recommendations", "upgrade_me"}
         /\ NoAnalysis(Handled.user_id))
        => /\ Handled.pc = "done" => Handled.code = 404
           /\ UNCHANGED <<resume_data, job_recommendations_data, test_sessions, test_results>>
      ]_vars

\* what the validity check of mistral_generate_questions refuses, and the
\* replies that never reach it
ReplyFails(reply) ==
    \/ reply.kind # "dict"
    \/ reply.mcq_questions = <<>>
    \/ reply.coding_questions = <<>>
    \/ \E i \in 1..Len(reply.mcq_questions) :
          \/ IntRaises(reply.mcq_questions[i].correct_answer)
          \/ i <= N_MCQ /\ reply.mcq_questions[i].options = <<>>

\* C15: start_test always creates a new active session with at least one MCQ
\* and at least one coding question, whatever the chat service does; when the
\* request to it errors, times out, returns unparsable output or returns
\* questions that fail the validity check, the session's questions are
\* exactly the fixed fallback bank.  (The session stored is the one built,
\* but for the _id the mirror write puts into it; no other session changes.)
C15_StartTestAlwaysCreates ==
    [][ Handled.op = "start_test" =>
          /\ Handled.pc = "done" => Handled.code = 200
          /\ Handled.pc # "mistral_chat_json" =>
                /\ Handled.body # <<>>
                /\ LET sess == Handled.body[1]
                   IN  /\ sess.id \in DOMAIN test_sessions'
                       /\ \A f \in DOMAIN sess : test_sessions'[sess.id][f] = sess[f]
                       /\ sess.user_id = Handled.user_id
                       /\ sess.status = "active"
                       /\ Len(sess.mcq_questions) >= 1
                       /\ Len(sess.coding_questions) >= 1
                       /\ DOMAIN test_sessions' # DOMAIN test_sessions =>
                             sess.id \notin DOMAIN test_sessions
                       /\ \A k \in DOMAIN test_sessions :
                             /\ k \in DOMAIN test_sessions'
                             /\ k # sess.id => test_sessions'[k] = test_sessions[k]
                             /\ \A f \in DOMAIN test_sessions[k] :
                                   test_sessions'[k][f] = test_sessions[k][f]
                       /\ (Handled.reply = <<>> \/ ReplyFails(Handled.reply[1])) =>
                             /\ sess.mcq_questions = MCQ_FALLBACK
                             /\ sess.coding_questions = CODING_FALLBACK
      ]_vars

\* C15 witness: the chat service answered with a question that has no
\* usable answer index, and the session stored holds the fallback bank.
C15_Witness ==
    /\ done.op = "start_test" /\ done.code = 200
    /\ done.reply # <<>>
    /\ done.reply[1].kind = "dict"
    /\ ReplyFails(done.reply[1])
    /\ test_sessions[done.body[1].id].mcq_questions = MCQ_FALLBACK

\* mistral_chat_json raised: the request failed or timed out, or the answer is
\* no JSON that safe_json_loads recovers
ChatFailed(r) == r.reply # <<>> /\ r.reply[1].kind \in {"error", "unparsable"}

\* C16: for a valid uploaded file, when the chat service request errors,
\* times out or returns JSON that cannot be recovered, upload_resume does not
\* fail: it stores an analysis whose skills, education and experience are
\* exactly the heuristic parser's results.
C16_ExtractionFailureFallsBack ==
    [][ (Handled.op = "upload_resume" /\ ChatFailed(Handled)) =>
          LET parsed == Heuristics[Handled.input[1].text]
          IN  /\ Handled.pc = "done" => Handled.code = 200
              /\ Handled.body # <<>>
              /\ resume_data'[Handled.user_id] = Handled.body[1]
              /\ Handled.body[1].tech_stacks = parsed.tech_stacks
              /\ Handled.body[1].education = parsed.education
              /\ \E draws \in DOMAIN parsed.work_experience :
                    Handled.body[1].work_experience = parsed.work_experience[draws]
      ]_vars

\* C16 witness: the chat service failed and the upload was answered 200 with
\* the skills, the degree and the job the heuristic parser finds in the text.
C16_Witness ==
    /\ done.op = "upload_resume" /\ done.code = 200
    /\ ChatFailed(done)
    /\ done.llm_requests = 1
    /\ done.body[1].tech_stacks = <<Skill_Git, Skill_Go>>
    /\ Len(done.body[1].education) = 1
    /\ Len(done.body[1].work_experience) = 1
    /\ done.body[1].education[1].year = <<2019>>

\* C17: when no API credential is configured, neither upload_resume nor
\* start_test ever issues a request to the chat service, and both still
\* succeed: upload_resume with heuristic-only extraction and start_test with
\* the fixed fallback bank.  (An upload that waits for the content of its
\* file has not parsed anything yet.)
C17_NoCredentialNoRequest ==
    [][ ~api_key_set =>
          /\ Handled.llm_requests = 0
          /\ Handled.pc # "mistral_chat_json"
          /\ (/\ Handled.op = "upload_resume" /\ UploadRejection(Handled.input[1]) = 0
              /\ Handled.pc # "file.read") =>
                LET parsed == Heuristics[Handled.input[1].text]
                IN  /\ Handled.pc = "done" => Handled.code = 200
                    /\ Handled.body # <<>>
                    /\ resume_data'[Handled.user_id] = Handled.body[1]
                    /\ Handled.body[1].tech_stacks = parsed.tech_stacks
                    /\ Handled.body[1].education = parsed.education
                    /\ \E draws \in DOMAIN parsed.work_experience :
                          Handled.body[1].work_experience = parsed.work_experience[draws]
          /\ Handled.op = "start_test" =>
                /\ Handled.pc = "done" => Handled.code = 200
                /\ Handled.body # <<>>
                /\ \A f \in DOMAIN Handled.body[1] :
                      test_sessions'[Handled.body[1].id][f] = Handled.body[1][f]
                /\ Handled.body[1].mcq_questions = MCQ_FALLBACK
                /\ Handled.body[1].coding_questions = CODING_FALLBACK
      ]_vars

\* C17 witness: without a credential an upload and then a start_test were
\* answered 200 and no request went to the chat service.
C17_Witness ==
    /\ ~api_key_set
    /\ "u1" \in DOMAIN resume_data
    /\ resume_data["u1"].tech_stacks = <<Skill_Git, Skill_Go>>
    /\ done.op = "start_test" /\ done.code = 200 /\ done.llm_requests = 0
    /\ done.body[1].mcq_questions = MCQ_FALLBACK

\* C18: each upload_resume and start_test request issues at most one request
\* to the chat service; after a failed request the handler goes to its
\* fallback without sending another.
C18_AtMostOneChatRequest ==
    [][ Handled.op \in {"upload_resume", "start_test"} =>
          /\ Handled.llm_requests <= 1
          /\ Handled.pc = "mistral_chat_json" =>
                Handled.llm_requests = 1 /\ Handled.reply = <<>>
          /\ ChatFailed(Handled) =>
                /\ Handled.llm_requests = 1
                /\ Handled.pc # "mistral_chat_json"
                /\ Handled.body # <<>>
                /\ Handled.op = "start_test" =>
                      Handled.body[1].mcq_questions = MCQ_FALLBACK
                /\ Handled.op = "upload_resume" =>
                      Handled.body[1].tech_stacks = Heuristics[Handled.input[1].text].tech_stacks
      ]_vars

\* C18 witness: a start_test whose one request to the chat service failed
\* was answered with the fallback bank.
C18_Witness ==
    /\ done.op = "start_test" /\ done.code = 200
    /\ ChatFailed(done)
    /\ done.llm_requests = 1
    /\ done.body[1].coding_questions = CODING_FALLBACK

(***************************************************************************)
(* Every handler that calls the document store, on a process whose mirror  *)
(* may hold the documents of an earlier run and whose every call of the    *)
(* driver may raise (specification SpecMirror).                            *)
(***************************************************************************)
MirrorDbs ==
    SampleDbs \cup
    { [EmptyDb EXCEPT !.resumes = [u \in {"u1"} |-> MirrorDoc], !.results = MirrorResults] }

\* one reply of the chat service per prompt: the request failed
FailedReplies == {Reply("error", <<>>, <<>>)}
FailedResumeReplies == {ResumeReply("error", <<>>)}

InitMirror ==
    /\ api_key_set \in BOOLEAN
    /\ test_sessions = EmptyDict
    /\ test_results = <<>>
    /\ now = 0
    /\ response = Answer("none", 0, 0, "none", FALSE, FALSE)
    /\ due = {}
    /\ db_enabled \in BOOLEAN
    /\ resume_data = EmptyDict
    /\ job_recommendations_data = EmptyDict
    /\ db \in (IF db_enabled THEN MirrorDbs ELSE {EmptyDb})
    /\ inflight = [s \in Slots |-> NoRequest]
    /\ done = NoRequest
    /\ started = 0
    /\ latest = EmptyDict
    /\ args = <<>>
    /\ ret = <<>>

NextMirror ==
    \/ \E up \in UploadInputs : UploadResume("a", up[1], up[2])
    \/ UploadResumeRead("a")
    \/ \E reply \in FailedResumeReplies : UploadResumeExtracted("a", reply)
    \/ \E ok \in BOOLEAN : UploadResumeMirror("a", ok)
    \/ \E u \in Users : GetJobRecommendations("a", u)
    \/ \E ok \in BOOLEAN : GetJobRecommendationsMirror("a", ok)
    \/ \E u \in Users : GetResumeAnalysis("a", u)
    \/ \E ok \in BOOLEAN : GetResumeAnalysisFound("a", ok)
    \/ \E u \in Users : StartTestRequest("a", u)
    \/ \E reply \in FailedReplies : StartTestGenerated("a", reply)
    \/ \E ok \in BOOLEAN : StartTestMirror("a", ok)
    \/ \E id \in 1..MaxSessions, m \in SampleMcqAnswers, c \in SampleCodingAnswers :
          SubmitTestRequest("a", id, m, c)
    \/ \E u \in Users : GetTestHistory("a", u)
    \/ \E ok \in BOOLEAN : GetTestHistoryFound("a", ok)
    \/ \E u \in Users : GetProfileOverview("a", u)
    \/ \E ok \in BOOLEAN : GetProfileOverviewResume("a", ok)
    \/ \E ok \in BOOLEAN : GetProfileOverviewResults("a", ok)

SpecMirror == InitMirror /\ [][NextMirror]_vars

\* the handlers that write to the mirror
MirrorWriters == {"upload_resume", "get_job_recommendations", "start_test", "submit_test"}

\* the stores hold the record the request built (a stored session may have
\* gained the driver's _id since)
Holds(r, resumes, recommendations, sessions, results) ==
    /\ r.body # <<>>
    /\ CASE r.op = "upload_resume" -> Get(resumes, r.user_id, <<>>) = r.body[1]
         [] r.op = "get_job_recommendations" ->
               Get(recommendations, r.user_id, <<"none">>) = r.body[1]
         [] r.op = "start_test" ->
               /\ r.body[1].id \in DOMAIN sessions
               /\ \A f \in DOMAIN r.body[1] : sessions[r.body[1].id][f] = r.body[1][f]
         [] r.op = "submit_test" -> /\ r.input[1] \in Keys(results)
                                      /\ Item(results, r.input[1]) = r.body[1]

\* a mirror write of the request on the connection raised in this step
WriteFailed ==
    /\ inflight["a"].op \in MirrorWriters
    /\ Handled.op = inflight["a"].op
    /\ Handled.db_errors > inflight["a"].db_errors

\* C19: when a mirror write fails during upload_resume,
\* get_job_recommendations, start_test or submit_test, the handler still
\* returns its normal success response (it ends there, answering 200 with
\* the record it built), and the in-memory store held the new record already
\* when the write was attempted and still holds it afterwards.
C19_FailedMirrorWriteSwallowed ==
    [][ WriteFailed =>
          /\ Handled.pc = "done"
          /\ Handled.code = 200
          /\ Handled.body = inflight["a"].body
          /\ Holds(inflight["a"], resume_data, job_recommendations_data,
                   test_sessions, test_results)
          /\ Holds(Handled, resume_data', job_recommendations_data',
                   test_sessions', test_results')
      ]_vars

\* C19 witness: the mirror write of an upload_resume raised; the upload was
\* answered 200, its analysis is in memory and the mirror does not have it.
C19_Witness ==
    /\ done.op = "upload_resume"
    /\ done.db_errors > 0
    /\ done.code = 200
    /\ resume_data[done.user_id] = done.body[1]
    /\ Get(db.resumes, done.user_id, <<>>) # done.body[1]

\* C20: at every endpoint that calls the document store, for reads as well
\* as writes, a failure of that call is never propagated to the caller as an
\* error response: the endpoint answers as it would if the mirror held
\* nothing for that key.
C20_StoreFailureNeverPropagated ==
    [][ (Handled.pc = "done" /\ Handled.db_errors > 0) =>
          /\ Handled.op = "get_resume_analysis" => Handled.code = 404
          /\ Handled.op = "get_test_history" =>
                Handled.code = 200 /\ Handled.body = <<TestHistory(<<>>, FALSE)>>
          /\ Handled.op = "get_profile_overview" => Handled.code = 200
          /\ Handled.op \in MirrorWriters => Handled.code = 200
      ]_vars

\* the results of a user that the in-memory store holds
MemoryResults(results, user_id) == UserResults(Values(results), user_id)

\* C21: every read endpoint that consults the mirror (get_resume_analysis,
\* get_profile_overview, get_test_history) does so only when the in-memory
\* lookup for the key misses, and whenever the mirror returns a record the
\* endpoint stores it in the in-memory map, so that the next read of the same
\* key is served from memory without a mirror call.
C21_MirrorReadsFillMemory ==
    [][ LET u == Handled.user_id
        IN  /\ (Handled.pc = "db.resumes.find_one") => u \notin DOMAIN resume_data
            /\ (Handled.pc = "db.results.find") => MemoryResults(test_results, u) = <<>>
            /\ (Handled.pc = "done" /\ Handled.code = 200) =>
                  /\ (Handled.op = "get_resume_analysis" /\ u \notin DOMAIN resume_data) =>
                        Get(resume_data', u, <<>>) = Handled.body[1]
                  /\ (/\ Handled.op = "get_profile_overview"
                      /\ u \notin DOMAIN resume_data
                      /\ Handled.body[1].resume # <<>>) =>
                        Get(resume_data', u, <<>>) = Handled.body[1].resume[1]
                  /\ (/\ Handled.op = "get_test_history"
                      /\ MemoryResults(test_results, u) = <<>>
                      /\ Handled.body[1].test_history # <<>>) =>
                        MemoryResults(test_results', u) # <<>>
      ]_vars

\* what upload_resume refuses before it extracts any text
Refused(file) ==
    \/ file.content_type \notin SupportedTypes
    \/ file.size = 0
    \/ file.size > MaxUploadBytes

\* C22: upload_resume rejects with HTTP 400 a file whose declared content
\* type is unsupported, a file that is empty, and a file larger than 10 MiB;
\* in each of these cases no text extraction and no LLM request is attempted
\* and the stored analysis for that user id (if any) is left unchanged.
\* (The content type is refused at once; the two other refusals follow the
\* read of the content, the only place such a request waits at.)
C22_RefusedUploadChangesNothing ==
    [][ (Handled.op = "upload_resume" /\ Refused(Handled.input[1])) =>
          /\ Handled.pc \in {"file.read", "done"}
          /\ Handled.pc = "file.read" =>
                /\ Handled.input[1].content_type \in SupportedTypes
                /\ inflight["a"].pc = "idle"
          /\ Handled.pc = "done" => Handled.code = 400
          /\ Handled.body = <<>>
          /\ Handled.llm_requests = 0
          /\ Handled.reply = <<>>
          /\ UNCHANGED <<resume_data, latest, db>>
      ]_vars

\* C22 witness: a user with a stored analysis sent a file above the size
\* limit; the request was answered 400 and the analysis is still there.
C22_Witness ==
    /\ done.op = "upload_resume"
    /\ done.code = 400
    /\ done.input[1].size > MaxUploadBytes
    /\ done.input[1].content_type \in SupportedTypes
    /\ done.user_id \in DOMAIN resume_data

(***************************************************************************)
(* get_test_history and get_profile_overview on the results the mirror     *)
(* holds (specification SpecHistory).  submit_test stores no result in     *)
(* memory, so every result read comes from db.results: up to MaxResults    *)
(* documents of two users, in insertion order, one kind without timestamp. *)
(***************************************************************************)
ResultKinds ==
    { [user_id |-> u, total_score |-> sc, timestamp |-> t] :
          u \in Users, sc \in {6000, 8266}, t \in {3, 5} }
    \cup { [user_id |-> "u1", total_score |-> 2550] }

\* the i-th document inserted is of session i
StoredHistories ==
    UNION { { [i \in 1..n |-> [session_id |-> i] @@ f[i]] : f \in [1..n -> ResultKinds] } :
            n \in 0..MaxResults }

InitHistory ==
    /\ api_key_set = FALSE
    /\ test_sessions = EmptyDict
    /\ test_results = <<>>
    /\ now = 0
    /\ response = Answer("none", 0, 0, "none", FALSE, FALSE)
    /\ due = {}
    /\ db_enabled \in BOOLEAN
    /\ resume_data = EmptyDict
    /\ job_recommendations_data = EmptyDict
    /\ db \in (IF db_enabled THEN {[EmptyDb EXCEPT !.results = h] : h \in StoredHistories}
               ELSE {EmptyDb})
    /\ inflight = [s \in Slots |-> NoRequest]
    /\ done = NoRequest
    /\ started = 0
    /\ latest = EmptyDict
    /\ args = <<>>
    /\ ret = <<>>

NextHistory ==
    \/ \E u \in Readers : GetTestHistory("a", u)
    \/ \E ok \in BOOLEAN : GetTestHistoryFound("a", ok)
    \/ \E u \in Readers : GetProfileOverview("a", u)
    \/ \E ok \in BOOLEAN : GetProfileOverviewResume("a", ok)
    \/ \E ok \in BOOLEAN : GetProfileOverviewResults("a", ok)

SpecHistory == InitHistory /\ [][NextHistory]_vars

\* the places in the mirror of the results of a user
StoredAt(user_id) == {i \in 1..Len(db.results) : db.results[i].user_id = user_id}

\* C23: get_test_history(user) returns exactly the stored results whose
\* user_id is that user, ordered newest first by timestamp; total_tests
\* equals their number and best_score their maximum total_score;
\* improvement_trend is no_data exactly when there are no results, improving
\* exactly when there is more than one result and the newest total_score is
\* strictly greater than the oldest, and stable otherwise.
C23_TestHistory ==
    (done.op = "get_test_history" /\ done.db_errors = 0) =>
        LET history == done.body[1].test_history
            analytics == done.body[1].analytics
            n == Len(history)
        IN  /\ done.code = 200
            /\ n = Cardinality(StoredAt(done.user_id))
            /\ \A i \in StoredAt(done.user_id) : \E k \in 1..n : history[k] = db.results[i]
            /\ \A k \in 1..n : history[k].user_id = done.user_id
            /\ \A j, k \in 1..n : j < k => Timestamp(history[j]) >= Timestamp(history[k])
            /\ analytics.total_tests = n
            /\ n > 0 => /\ \A k \in 1..n : analytics.best_score >= history[k].total_score
                        /\ \E k \in 1..n : analytics.best_score = history[k].total_score
            /\ analytics.improvement_trend = "no_data" <=> n = 0
            /\ analytics.improvement_trend = "improving" <=>
                  (n > 1 /\ history[1].total_score > history[n].total_score)
            /\ analytics.improvement_trend \in {"no_data", "improving", "stable"}

\* C23 witness: the mirror holds an older and then a newer, better result of
\* the user; the history lists the newer one first and the trend is improving.
C23_Witness ==
    /\ done.op = "get_test_history" /\ done.code = 200 /\ done.db_errors = 0
    /\ Len(done.body[1].test_history) = 2
    /\ done.body[1].test_history[1].session_id = 2
    /\ Timestamp(done.body[1].test_history[1]) > Timestamp(done.body[1].test_history[2])
    /\ done.body[1].analytics.improvement_trend = "improving"

(***************************************************************************)
(* Two connections: a handler suspended at an await lets the handler of    *)
(* the other connection run (specification SpecRace: concurrent uploads    *)
(* of one user).                                                           *)
(***************************************************************************)
RaceFiles == {f \in SampleFiles : UploadRejection(f) = 0}

RaceReplies == {reply \in SampleResumeReplies : reply.kind # "unparsable"}

InitRace ==
    /\ api_key_set \in BOOLEAN
    /\ test_sessions = EmptyDict
    /\ test_results = <<>>
    /\ now = 0
    /\ response = Answer("none", 0, 0, "none", FALSE, FALSE)
    /\ due = {}
    /\ db_enabled \in BOOLEAN
    /\ resume_data = EmptyDict
    /\ job_recommendations_data = EmptyDict
    /\ db = EmptyDb
    /\ inflight = [s \in Slots |-> NoRequest]
    /\ done = NoRequest
    /\ started = 0
    /\ latest = EmptyDict
    /\ args = <<>>
    /\ ret = <<>>

NextRace ==
    \/ \E s \in Slots, u \in Readers, f \in RaceFiles : UploadResume(s, u, f)
    \/ \E s \in Slots : UploadResumeRead(s)
    \/ \E s \in Slots, reply \in RaceReplies : UploadResumeExtracted(s, reply)
    \/ \E s \in Slots, ok \in BOOLEAN : UploadResumeMirror(s, ok)

SpecRace == InitRace /\ [][NextRace]_vars

\* the request of connection s after this step: suspended again, or answered
HandledBy(s) == IF inflight'[s].pc # "idle" THEN inflight'[s] ELSE done'

\* the handler of connection s ran in this step
Ran(s) == inflight'[s] # inflight[s]

\* the analyses one upload can compute from its own file and its own reply
OwnAnalyses(r) ==
    { BuildAnalysis(r.user_id, r.input[1].text,
                    IF r.reply = <<>> THEN <<>> ELSE mistral_extract_resume(r.reply[1]), draws) :
      draws \in DOMAIN Heuristics[r.input[1].text].work_experience }

\* C24: when two upload_resume requests for the same user id run
\* concurrently and interleave at their suspension points (LLM call, mirror
\* write), the in-memory analysis for that user after both finish is exactly
\* the complete analysis of the request that wrote to the map last; it is
\* never a mixture of fields from the two uploads.  Step by step: the map
\* changes only when an upload writes it, and then to the analysis that this
\* upload computed from its own file and reply and returns.
C24_LastWriteWins ==
    [][ \A s \in Slots : (Ran(s) /\ HandledBy(s).op = "upload_resume") =>
          LET r == HandledBy(s)
              writes == inflight[s].body = <<>> /\ r.body # <<>>
          IN  /\ writes => /\ resume_data'[r.user_id] = r.body[1]
                           /\ r.body[1] \in OwnAnalyses(r)
              /\ ~writes => resume_data' = resume_data
      ]_vars

\* C24 witness: two uploads of the same user overlapped; the one that was
\* answered last had written first, so the map holds the other one's
\* analysis, whole.
C24_Witness ==
    /\ \A s \in Slots : inflight[s].pc = "idle"
    /\ started = 2
    /\ done.op = "upload_resume" /\ done.code = 200
    /\ latest[done.user_id].nth = 2
    /\ resume_data[done.user_id] # done.body[1]
    /\ resume_data[done.user_id] =
          BuildAnalysis(done.user_id, latest[done.user_id].text,
                        latest[done.user_id].extracted, latest[done.user_id].draws)

(***************************************************************************)
(* The heuristic parser on single lines (specification SpecParse): a word, *)
(* a marker of either vocabulary or none, followed by filler up to every   *)
(* length within MaxLine.                                                  *)
(***************************************************************************)
LineHeads ==
    { <<"P", "h", "D">>, <<"d", "e", "g", "r", "e", "e">>,
      <<"I", "n", "t", "e", "r", "n">>, <<"M", "A", "N", "A", "G", "E", "R">>,
      <<"R", "e", "s", "u", "m", "e">> }

SampleLines ==
    { head \o [i \in 1..(n - Len(head)) |-> IF i = 1 THEN " " ELSE "x"] :
      head \in LineHeads, n \in 1..MaxLine } \ {<<>>}

InitParse ==
    /\ api_key_set = FALSE
    /\ ServerIdle
    /\ args = <<>>
    /\ ret = <<>>

ParseEducation(text) ==
    /\ ret = <<>>
    /\ args' = <<[fn |-> "parse_education", text |-> text]>>
    /\ ret' = <<parse_education(text)>>
    /\ UNCHANGED serverVars

ParseWorkExperience(text, draws) ==
    /\ ret = <<>>
    /\ args' = <<[fn |-> "parse_work_experience", text |-> text]>>
    /\ ret' = <<parse_work_experience(text, draws)>>
    /\ UNCHANGED serverVars

NextParse ==
    \/ \E text \in SampleLines : ParseEducation(text)
    \/ \E text \in SampleLines : \E draws \in Draws(text) : ParseWorkExperience(text, draws)

SpecParse == InitParse /\ [][NextParse]_vars

\* C25: in the heuristic parser a marker-bearing line is emitted by
\* parse_education exactly when its length is greater than 10 characters,
\* and by parse_work_experience exactly when its length is greater than 15
\* characters (before the output cap is applied): lines of 11 characters
\* qualify as education, lines of exactly 15 characters do not qualify as
\* experience.
C25_LengthThresholds ==
    ret # <<>> =>
        LET line == args[1].text
        IN  /\ (args[1].fn = "parse_education" /\ AnyKeyword(education_keywords, line)) =>
                  (ret[1] # <<>> <=> Len(line) > 10)
            /\ (args[1].fn = "parse_work_experience" /\ AnyKeyword(work_keywords, line)) =>
                  (ret[1] # <<>> <=> Len(line) > 15)

(***************************************************************************)
(* SpecShapes: upload_resume with the chat service enabled, one request at *)
(* a time, over the shapes a reply can parse to.                           *)
(***************************************************************************)
ShapeFiles ==
    {File("text/plain", Len(text), TRUE, text) : text \in {ResumeText2, ResumeText3}}

BSc == <<"B", "S", "c">>
Degree == Dict(<< <<<<"d", "e", "s", "c", "r", "i", "p", "t", "i", "o", "n">>, Str(BSc)>> >>)

\* the fields of the reply objects of the model
ShapedFields ==
    { [k \in {"tech_stacks"} |-> Str(Skill_Qiskit)],
      [k \in {"tech_stacks", "education", "work_experience"} |->
          CASE k = "tech_stacks" -> Num(5)
            [] k = "education" -> Degree
            [] k = "work_experience" -> Str(BSc)],
      [k \in {"tech_stacks"} |-> List(<<Degree>>)],
      [k \in {"tech_stacks"} |-> List(<<List(<<Str(Skill_Qiskit)>>)>>)],
      [k \in {"tech_stacks"} |-> List(<<Num(3), Num(12)>>)],
      [k \in {"tech_stacks"} |-> List(<<None>>)],
      [k \in {"skills"} |-> List(<<Str(Skill_Qiskit), Num(3)>>)],
      [k \in {"education"} |-> List(<<Str(BSc)>>)],
      [k \in {"education"} |-> List(<<Str(<<>>)>>)],
      [k \in {"education"} |-> List(<<List(<<List(<<Num(1), Str(BSc)>>), Str(<<"a", "b">>)>>)>>)],
      [k \in {"work_experience"} |-> List(<<List(<<>>), List(<<ExtractedJob>>)>>)],
      [k \in {"experience"} |-> List(<<Num(4)>>)],
      [k \in {"skills", "education", "work_experience"} |->
          CASE k = "skills" -> List(<<Str(Skill_Qiskit), Str(Skill_Git)>>)
            [] k = "education" -> List(<<Degree>>)
            [] k = "work_experience" -> List(<<ExtractedJob>>)] }

\* the replies of the model: a JSON value that is not an object, and objects
ShapedReplies ==
    {ResumeReply("value", List(<<Num(1), Num(2)>>))} \cup {ResumeReply("dict", data) : data \in ShapedFields}

InitShapes ==
    /\ api_key_set = TRUE
    /\ test_sessions = EmptyDict
    /\ test_results = <<>>
    /\ now = 0
    /\ response = Answer("none", 0, 0, "none", FALSE, FALSE)
    /\ due = {}
    /\ db_enabled \in BOOLEAN
    /\ resume_data = EmptyDict
    /\ job_recommendations_data = EmptyDict
    /\ db = EmptyDb
    /\ inflight = [s \in Slots |-> NoRequest]
    /\ done = NoRequest
    /\ started = 0
    /\ latest = EmptyDict
    /\ args = <<>>
    /\ ret = <<>>

NextShapes ==
    \/ \E u \in Readers, f \in ShapeFiles : UploadResume("a", u, f)
    \/ UploadResumeRead("a")
    \/ \E reply \in ShapedReplies : UploadResumeExtracted("a", reply)
    \/ \E ok \in BOOLEAN : UploadResumeMirror("a", ok)

SpecShapes == InitShapes /\ [][NextShapes]_vars

\* C26: for a valid uploaded file and every JSON value the reply of the chat
\* service parses to (a value that is not an object, an object whose fields
\* are not lists, or lists with elements of the wrong type), upload_resume
\* is not answered with an error: it stores an analysis for the user and
\* returns it.
C26_ShapedReplyStillStored ==
    [][ (inflight["a"].op = "upload_resume" /\ inflight["a"].pc = "mistral_chat_json"
         /\ Ran("a")) =>
          /\ Handled.pc = "done" => Handled.code = 200
          /\ Handled.body # <<>>
          /\ Handled.user_id \in DOMAIN resume_data'
          /\ resume_data'[Handled.user_id] = Handled.body[1]
      ]_vars

(***************************************************************************)
(* SpecSubmit: start_test and submit_test on two connections while time    *)
(* passes.  The process may already hold the session of an earlier         *)
(* start_test.                                                             *)
(***************************************************************************)
\* test_sessions after start_test(user_id = "u1") without the chat service
OneSession ==
    Put(EmptyDict, 1,
        StoredSession(TestSession(1, "u1", Fallback.mcq_questions, Fallback.coding_questions)))

InitSubmit ==
    /\ api_key_set = FALSE
    /\ now = 0
    /\ test_sessions \in {EmptyDict, OneSession}
    /\ test_results = <<>>
    /\ response = Answer("none", 0, 0, "none", FALSE, FALSE)
    /\ due = {}
    /\ db_enabled \in BOOLEAN
    /\ resume_data = EmptyDict
    /\ job_recommendations_data = EmptyDict
    /\ db = EmptyDb
    /\ inflight = [s \in Slots |-> NoRequest]
    /\ done = NoRequest
    /\ started = 0
    /\ latest = EmptyDict
    /\ args = <<>>
    /\ ret = <<>>

NextSubmit ==
    \/ \E s \in Slots, u \in Readers : StartTestRequest(s, u)
    \/ \E s \in Slots, ok \in BOOLEAN : StartTestMirror(s, ok)
    \/ \E s \in Slots, id \in 1..(MaxSessions + 1), m \in SampleMcqAnswers,
          c \in SampleCodingAnswers : SubmitTestRequest(s, id, m, c)
    \/ \E d \in {DurationMinutes \div 2, DurationMinutes + 1} : Tick(d)

SpecSubmit == InitSubmit /\ [][NextSubmit]_vars

\* C27: in every state a request can observe (at every await of another
\* request and between requests) test_results has an entry for a session id
\* exactly when that session exists with status completed.
C27_ResultIffCompleted ==
    /\ Keys(test_results) \subseteq DOMAIN test_sessions
    /\ \A id \in DOMAIN test_sessions :
          id \in Keys(test_results) <=> test_sessions[id].status = "completed"

\* a request was accepted in this step
Accepted == started' = started + 1

\* the request accepted in this step, as its handler left it at its first
\* await or at its end
AcceptedRequest ==
    IF \E s \in Slots : Ran(s) THEN inflight'[CHOOSE s \in Slots : Ran(s)] ELSE done'

\* C28: of the submit_test requests that reach a session before its expiry
\* time, on whatever connections and however they interleave with other
\* requests, the first is graded, answered with its TestResult and stored;
\* every other one is answered 400 and leaves the stored result as it is.
C28_OneSubmissionGraded ==
    [][ (/\ Accepted
         /\ AcceptedRequest.op = "submit_test"
         /\ AcceptedRequest.input[1] \in DOMAIN test_sessions
         /\ now <= test_sessions[AcceptedRequest.input[1]].expires_at) =>
          LET r == AcceptedRequest
              id == r.input[1]
          IN  IF id \notin Keys(test_results)
              THEN /\ r.pc = "done" => r.code = 200
                   /\ r.body # <<>>
                   /\ test_results' = SetItem(test_results, id, r.body[1])
              ELSE /\ r.code = 400
                   /\ test_results' = test_results
      ]_vars

(***************************************************************************)
(* SpecStale: upload_resume and get_resume_analysis on two connections of  *)
(* a process that starts with an empty map and a document store that may   *)
(* hold the analysis an earlier process mirrored.                          *)
(***************************************************************************)
InitStale ==
    /\ api_key_set = FALSE
    /\ test_sessions = EmptyDict
    /\ test_results = <<>>
    /\ now = 0
    /\ response = Answer("none", 0, 0, "none", FALSE, FALSE)
    /\ due = {}
    /\ db_enabled \in BOOLEAN
    /\ resume_data = EmptyDict
    /\ job_recommendations_data = EmptyDict
    /\ db \in IF db_enabled THEN SampleDbs ELSE {EmptyDb}
    /\ inflight = [s \in Slots |-> NoRequest]
    /\ done = NoRequest
    /\ started = 0
    /\ latest = EmptyDict
    /\ args = <<>>
    /\ ret = <<>>

NextStale ==
    \/ \E s \in Slots, u \in Readers, f \in RaceFiles : UploadResume(s, u, f)
    \/ \E s \in Slots : UploadResumeRead(s)
    \/ \E s \in Slots, ok \in BOOLEAN : UploadResumeMirror(s, ok)
    \/ \E s \in Slots, u \in Readers : GetResumeAnalysis(s, u)
    \/ \E s \in Slots, ok \in BOOLEAN : GetResumeAnalysisFound(s, ok)

SpecStale == InitStale /\ [][NextStale]_vars

\* C29: a get_resume_analysis that missed in memory and resumes from its
\* mirror read after an upload_resume for the same user id has written the
\* map leaves that user's entry as the upload wrote it.
C29_FallbackKeepsUpload ==
    [][ \A s \in Slots :
          (/\ inflight[s].op = "get_resume_analysis"
           /\ inflight[s].pc = "db.resumes.find_one"
           /\ Ran(s)
           /\ inflight[s].user_id \in DOMAIN latest) =>
             /\ inflight[s].user_id \in DOMAIN resume_data'
             /\ resume_data'[inflight[s].user_id] = resume_data[inflight[s].user_id]
      ]_vars

\* C30 (specification SpecHistory): for a user with one or more stored test
\* results, profile_overview reports as total_tests the number of that
\* user's stored results and as last_score the total_score of the one
\* submitted most recently.
C30_LastScoreIsNewest ==
    (/\ done.op = "get_profile_overview" /\ done.code = 200
     /\ db_enabled /\ done.db_errors = 0
     /\ StoredAt(done.user_id) # {}) =>
        LET performance == done.body[1].test_performance
            mine == StoredAt(done.user_id)
        IN  /\ performance.total_tests = Cardinality(mine)
            /\ \E i \in mine :
                  /\ \A j \in mine : Timestamp(db.results[i]) >= Timestamp(db.results[j])
                  /\ performance.last_score = db.results[i].total_score

(***************************************************************************)
(* The older backend (src/jvh-main/jvh-main/backend/server.py), whose      *)
(* start_test and submit_test the session claims also name (specification  *)
(* SpecLegacy).  It stores a session as test_session.dict() and reads it   *)
(* by subscript, so submit_test does grade; it has no expiry check, no     *)
(* chat service and no mirror, and neither of the two handlers has an      *)
(* await: each is one step.  Its grade_mcq_answers and                     *)
(* grade_coding_answers (lines 354-415) compute what those of              *)
(* src/server.py compute.  Of a question the model keeps what the grading  *)
(* reads.  SpecLegacy has the four handlers that write a store of this     *)
(* backend; get_resume_analysis, get_test_history, upgrade_me and          *)
(* get_profile_overview only read them.                                    *)
(***************************************************************************)
MCQ_QUESTIONS ==
    << [id |-> "mcq1", correct_answer |-> 2, category |-> "quantum_basics"],
       [id |-> "mcq2", correct_answer |-> 1, category |-> "quantum_basics"],
       [id |-> "mcq3", correct_answer |-> 0, category |-> "algorithms"],
       [id |-> "mcq4", correct_answer |-> 2, category |-> "quantum_gates"],
       [id |-> "mcq5", correct_answer |-> 0, category |-> "quantum_basics"] >>

CODING_QUESTIONS ==
    << [id |-> "code1", category |-> "programming"],
       [id |-> "code2", category |-> "programming"],
       [id |-> "code3", category |-> "quantum"] >>

\* random.sample(population, min(k, len(population))): the elements at k
\* distinct positions, in the order drawn
SamplePositions(population, k) ==
    LET n == IF k < Len(population) THEN k ELSE Len(population)
    IN  {at \in [1..n -> 1..Len(population)] : \A i, j \in 1..n : i # j => at[i] # at[j]}

Sample(population, at) == [i \in 1..Len(at) |-> population[at[i]]]

\* TestSession(user_id=..., mcq_questions=..., coding_questions=...).dict()
LegacySession(user_id, mcq_questions, coding_questions) ==
    [id |-> NewSessionId,
     user_id |-> user_id,
     mcq_questions |-> mcq_questions,
     coding_questions |-> coding_questions,
     start_time |-> now,
     duration_minutes |-> DurationMinutes,
     status |-> "active"]

\* what start_test and submit_test neither read nor write
legacyStoreVars == <<db_enabled, resume_data, job_recommendations_data, db, inflight, done, latest>>

MaxLegacyRequests == 4  \* requests the older backend receives in one run

\* a request arrives
LegacyReceived ==
    /\ started < MaxLegacyRequests
    /\ started' = started + 1

\* a request arrives on the free connection s
LegacyAccept(s) == inflight[s].pc = "idle" /\ LegacyReceived

\* start_test
LegacyStartTest(user_id, mcq_at, coding_at) ==
    /\ LegacyReceived
    /\ Cardinality(DOMAIN test_sessions) < MaxSessions
    /\ mcq_at \in SamplePositions(MCQ_QUESTIONS, N_MCQ)
    /\ coding_at \in SamplePositions(CODING_QUESTIONS, N_CODING)
    /\ LET test_session == LegacySession(user_id, Sample(MCQ_QUESTIONS, mcq_at),
                                         Sample(CODING_QUESTIONS, coding_at))
       IN  /\ test_sessions' = Put(test_sessions, test_session.id, test_session)
           /\ response' = Answer("start_test", test_session.id, 200, "none", FALSE, FALSE)
    /\ UNCHANGED <<api_key_set, test_results, now, due, legacyStoreVars, args, ret>>

LegacyRejects_OnlyExpired(session) == session.status = "expired"

\* submit_test: if session["status"] != "active"
LegacyRejects(session) == session.status # "active"

\* submit_test: the result; total_score is the unrounded
\* mcq score * 0.6 + coding score * 0.4, as an exact fraction
LegacyResult(session_id, session, mcq_answers, coding_answers) ==
    LET mcq_results == grade_mcq_answers(session.mcq_questions, mcq_answers)
        coding_results == grade_coding_answers(session.coding_questions, coding_answers)
        mcq == mcq_results.score
        coding == coding_results.score
    IN  [session_id |-> session_id,
         user_id |-> session.user_id,
         mcq_results |-> mcq_results,
         coding_results |-> coding_results,
         total_score |-> Frac(6 * mcq.n * coding.d + 4 * coding.n * mcq.d,
                              10 * mcq.d * coding.d),
         timestamp |-> now,
         duration_taken |-> 25]

\* submit_test
LegacySubmitTest(session_id, mcq_answers, coding_answers) ==
    /\ LegacyReceived
    /\ IF session_id \notin DOMAIN test_sessions
       THEN \* 404
            /\ response' = Answer("submit_test", session_id, 404, "none", FALSE, FALSE)
            /\ UNCHANGED <<test_sessions, test_results, due>>
       ELSE LET session == test_sessions[session_id]
                late == now > session.start_time + session.duration_minutes
                pre == Answer("submit_test", session_id, 0, session.status, late,
                              session_id \in due)
            IN  IF LegacyRejects(session)
                THEN \* 400
                     /\ response' = [pre EXCEPT !.code = 400]
                     /\ UNCHANGED <<test_sessions, test_results, due>>
                ELSE /\ test_results' = SetItem(test_results, session_id,
                            LegacyResult(session_id, session, mcq_answers, coding_answers))
                     /\ test_sessions' = [test_sessions EXCEPT ![session_id].status = "completed"]
                     /\ due' = due \cup {session_id}
                     /\ response' = [pre EXCEPT !.code = 200]
    /\ UNCHANGED <<api_key_set, now, legacyStoreVars, args, ret>>

(***************************************************************************)
(* upload_resume and get_job_recommendations of the older backend.  Its    *)
(* QUANTUM_JOBS (lines 42-88) and ResumeAnalysis (lines 192-199) are those *)
(* of src/server.py, and its calculate_strength_score (lines 321-337) adds *)
(* the same three terms without rounding the sum, a multiple of 0.25.  A   *)
(* list built as list(set(...)) is in the iteration order of the set,      *)
(* which the hashing of str decides anew for each process.                 *)
(***************************************************************************)
\* int(chars) for a str: <<>> when it raises ValueError, else <<the value>>
int(chars) ==
    LET stripped == Strip(chars)
        signed == stripped # <<>> /\ stripped[1] \in {"+", "-"}
        body == IF signed THEN Tail(stripped) ELSE stripped
        n == Len(body)
        IsDigit(i) == body[i] \in ToSet(Digits)
        valid == /\ n > 0
                 /\ \A i \in 1..n : IsDigit(i) \/ body[i] = "_"
                 /\ IsDigit(1) /\ IsDigit(n)
                 /\ \A i \in 1..(n - 1) : ~(body[i] = "_" /\ body[i + 1] = "_")
        digits == SelectSeq(body, LAMBDA c : c # "_")
        RECURSIVE Value(_)
        Value(k) == IF k = 0 THEN 0 ELSE 10 * Value(k - 1) + DigitValue(digits[k])
    IN  IF ~valid THEN <<>>
        ELSE IF signed /\ stripped[1] = "-" THEN <<0 - Value(Len(digits))>>
        ELSE <<Value(Len(digits))>>

\* extract_year_from_text: re.findall gives the group of each match, "19"
\* or "20"; each is put before the four characters that start where it first
\* occurs in the text, and int() is taken of the whole.  raises tells that
\* int() raised ValueError; year is <<>> for None
extract_year_from_text(text) ==
    LET matches == {SubSeq(text, k, k + 1) : k \in {i \in 1..Len(text) : YearAt(text, i)}}
        find(match) == SetMin({i \in 1..(Len(text) - 1) : SubSeq(text, i, i + 1) = match})
        year(match) ==
            int(match \o SubSeq(text, find(match),
                                IF find(match) + 3 < Len(text) THEN find(match) + 3
                                ELSE Len(text)))
    IN  IF matches = {} THEN [raises |-> FALSE, year |-> <<>>]
        ELSE IF \E match \in matches : year(match) = <<>>
        THEN [raises |-> TRUE, year |-> <<>>]
        ELSE [raises |-> FALSE, year |-> <<SetMax({year(match)[1] : match \in matches})>>]

\* parse_tech_stacks: the lists list(set(found_techs)) can be
LegacyTechStacks(text) ==
    LET text_upper == Upper(text)
        found_techs == {TECH_KEYWORDS[i] : i \in {k \in 1..Len(TECH_KEYWORDS) :
                                                   Contains(text_upper, TECH_KEYWORDS_upper[k])}}
        n == Cardinality(found_techs)
    IN  {list \in [1..n -> found_techs] : \A i, j \in 1..n : i # j => list[i] # list[j]}

\* the lines parse_education (over = 10) and parse_work_experience (over =
\* 15) keep: text.split('\n') has the lines of splitlines() and, for a text
\* that is empty or ends in a line end, one more empty line, which is too
\* short to be kept; keyword.upper() in line_upper holds of the lines
\* k.lower() in line.lower() holds of
LegacyLines(text, over, keywords) == Qualifying(text, over + 1, keywords)

\* parse_education: education[:3]
LegacyEducation(text) ==
    LET lines == LegacyLines(text, 10, education_keywords)
    IN  Take([i \in 1..Len(lines) |->
                 [description |-> Strip(lines[i]),
                  year |-> extract_year_from_text(lines[i]).year]], 3)

\* parse_work_experience: experience[:4]; draws[i] is what random.randint
\* returns for the i-th line kept
LegacyWorkExperience(text, draws) ==
    LET lines == LegacyLines(text, 15, work_keywords)
    IN  Take([i \in 1..Len(lines) |->
                 [role |-> Strip(lines[i]),
                  year |-> extract_year_from_text(lines[i]).year,
                  duration |-> draws[i]]], 4)

\* int() raises in extract_year_from_text on a line one of the two parsers
\* keeps
LegacyParseRaises(text) ==
    \E keep \in {<<10, education_keywords>>, <<15, work_keywords>>} :
        LET lines == LegacyLines(text, keep[1], keep[2])
        IN  \E i \in 1..Len(lines) : extract_year_from_text(lines[i]).raises

\* a text without a keyword of TECH_KEYWORDS
LegacyText1 ==
    <<"P", "h", "D", " ", "a", "t", " ", "M", "I", "T", " ", "2", "0", "1", "9", "\n",
      "I", "n", "t", "e", "r", "n", " ", "a", "t", " ", "I", "B", "M", " ", "2", "0", "2", "0">>

\* a text on whose line int() raises: "20" first occurs in "20x"
LegacyText3 ==
    <<"I", "n", "t", "e", "r", "n", " ", "2", "0", "x", " ", "a", "t", " ",
      "I", "B", "M", " ", "2", "0", "2", "0">>

LegacyTexts == {LegacyText1, ResumeText2, LegacyText3}

\* the parsers on the texts of the model, computed once
LegacyParsed ==
    [text \in LegacyTexts |->
        [raises |-> LegacyParseRaises(text),
         tech_stacks |-> LegacyTechStacks(text),
         education |-> LegacyEducation(text),
         work_experience |->
            [draws \in [1..Len(LegacyLines(text, 15, work_keywords)) -> Durations] |->
                LegacyWorkExperience(text, draws)]]]

\* upload_resume, up to content = await file.read(); the HTTPException(400)
\* for the content type is raised inside the try and leaves as a 500
LegacyUploadResume(s, user_id, file) ==
    /\ LegacyAccept(s)
    /\ LET r == Request("upload_resume", user_id, <<file>>)
       IN  IF file.content_type \notin
                 {"application/pdf",
                  "application/vnd.openxmlformats-officedocument.wordprocessingml.document"}
           THEN Finish(s, r, 500, <<>>)
           ELSE Suspend(s, r, "file.read")
    /\ UNCHANGED <<fixedVars, test_sessions, test_results, resume_data, latest,
                   job_recommendations_data, db>>

\* upload_resume, from the content read on; whatever is raised (by the size
\* check, by the text extraction, by a parser) leaves as a 500
LegacyUploadResumeRead(s) ==
    /\ inflight[s].op = "upload_resume"
    /\ inflight[s].pc = "file.read"
    /\ LET r == inflight[s]
           file == r.input[1]
           parsed == LegacyParsed[file.text]
       IN  IF file.size > MaxUploadBytes \/ ~file.readable \/ parsed.raises
           THEN /\ Finish(s, r, 500, <<>>)
                /\ UNCHANGED resume_data
           ELSE \E tech_stacks \in parsed.tech_stacks :
                \E draws \in DOMAIN parsed.work_experience :
                \E analysis \in {ResumeAnalysis(r.user_id, tech_stacks, parsed.education,
                                                parsed.work_experience[draws])} :
                    /\ resume_data' = Put(resume_data, r.user_id, analysis)
                    /\ Finish(s, r, 200, <<analysis>>)
    /\ UNCHANGED <<fixedVars, test_sessions, test_results, latest,
                   job_recommendations_data, db, started>>

\* calculate_job_match: no strip, the length of the list job_skills; the
\* percentage is an exact fraction, matching and missing are kept as sets
LegacyJobMatch(user_skills, job_skills) ==
    LET user_skills_set == {Lower(user_skills[i]) : i \in 1..Len(user_skills)}
        job_skills_set == {Lower(job_skills[i]) : i \in 1..Len(job_skills)}
        matching_skills == user_skills_set \cap job_skills_set
    IN  [match_pct |-> IF Len(job_skills) = 0 THEN Frac(0, 1)
                       ELSE Frac(Cardinality(matching_skills) * 100, Len(job_skills)),
         matching |-> matching_skills,
         missing |-> job_skills_set \ user_skills_set]

\* get_job_recommendations: the list returned and stored, a
\* JobRecommendation for every job with a match above 0, sorted by
\* match_percentage (stable, the higher first), the first three kept
LegacyRecommendations(user_skills) ==
    LET match == [i \in 1..Len(QUANTUM_JOBS) |->
                     LegacyJobMatch(user_skills, QUANTUM_JOBS[i].required_skills)]
        kept == SelectSeq([i \in 1..Len(QUANTUM_JOBS) |-> i],
                          LAMBDA i : match[i].match_pct.n > 0)
        Above(i, j) == match[i].match_pct.n * match[j].match_pct.d
                          > match[j].match_pct.n * match[i].match_pct.d
        place(k) == 1 + Cardinality({l \in 1..Len(kept) :
                        \/ Above(kept[l], kept[k])
                        \/ ~Above(kept[k], kept[l]) /\ l < k})
        sorted == [p \in 1..Len(kept) |-> kept[CHOOSE k \in 1..Len(kept) : place(k) = p]]
    IN  Take([p \in 1..Len(sorted) |->
                 [job_id |-> QUANTUM_JOBS[sorted[p]].id,
                  match_percentage |-> match[sorted[p]].match_pct,
                  matching_skills |-> match[sorted[p]].matching,
                  missing_skills |-> match[sorted[p]].missing]], TopN)

\* get_job_recommendations on the tech_stacks the uploads of the model
\* store, computed once
LegacyRecommended ==
    [user_skills \in UNION {LegacyParsed[text].tech_stacks : text \in LegacyTexts} |->
        LegacyRecommendations(user_skills)]

\* get_job_recommendations
LegacyGetJobRecommendations(s, user_id) ==
    /\ LegacyAccept(s)
    /\ LET r == Request("get_job_recommendations", user_id, <<>>)
       IN  IF user_id \notin DOMAIN resume_data
           THEN /\ Finish(s, r, 404, <<>>)
                /\ UNCHANGED job_recommendations_data
           ELSE \E recommendations \in
                    {LegacyRecommended[resume_data[user_id].tech_stacks]} :
                    /\ job_recommendations_data' =
                          Put(job_recommendations_data, user_id, recommendations)
                    /\ Finish(s, r, 200, <<recommendations>>)
    /\ UNCHANGED <<fixedVars, test_sessions, test_results, resume_data, latest, db>>

\* the files the uploads of SpecLegacy carry
LegacyFiles ==
    { File("application/pdf", 34, TRUE, LegacyText1),
      File("application/pdf", 13, TRUE, ResumeText2),
      File("application/pdf", 22, TRUE, LegacyText3),
      File("text/plain", 13, TRUE, ResumeText2),
      File("application/vnd.openxmlformats-officedocument.wordprocessingml.document",
           MaxUploadBytes + 1, TRUE, ResumeText2) }

\* the draws and submissions the requests of SpecLegacy carry
LegacyDraws == {<<<<1, 2, 3>>, <<1, 2>>>>, <<<<5, 2, 4>>, <<3, 1>>>>}
LegacySubmissions ==
    { <<EmptyDict, EmptyDict>>,
      <<[k \in {"mcq1", "mcq2", "mcq3"} |-> IF k = "mcq2" THEN 1 ELSE 2],
        [k \in {"code1"} |-> FullCode]>> }

InitLegacy ==
    /\ api_key_set = FALSE
    /\ test_sessions = EmptyDict
    /\ test_results = <<>>
    /\ now = 0
    /\ response = Answer("none", 0, 0, "none", FALSE, FALSE)
    /\ due = {}
    /\ StoreIdle
    /\ args = <<>>
    /\ ret = <<>>

NextLegacy ==
    \/ \E u \in Readers, f \in LegacyFiles : LegacyUploadResume("a", u, f)
    \/ LegacyUploadResumeRead("a")
    \/ \E u \in Readers : LegacyGetJobRecommendations("b", u)
    \/ \E u \in Readers, at \in LegacyDraws : LegacyStartTest(u, at[1], at[2])
    \/ \E s \in 1..(MaxSessions + 1), a \in LegacySubmissions : LegacySubmitTest(s, a[1], a[2])
    \/ Tick(DurationMinutes + 1)

SpecLegacy == InitLegacy /\ [][NextLegacy]_vars

\* C2: once a submit_test for a session has succeeded, every later
\* submit_test for the same session id is rejected with 400 and the result
\* stored for the session is left as it is, whatever answers the later
\* submission carries and whenever it comes.
C2_LaterSubmitRejected ==
    [][ (response'.op = "submit_test" /\ response'.resubmit) =>
          LET id == response'.session_id
          IN  /\ response'.code = 400
              /\ id \in Keys(test_results) /\ id \in Keys(test_results')
              /\ Item(test_results', id) = Item(test_results, id)
      ]_vars

\* C2 witness: a session was graded, and a later submit_test for it, sent
\* after more than the session's duration, was rejected with 400.
C2_Witness ==
    /\ response.op = "submit_test" /\ response.code = 400
    /\ response.resubmit /\ response.late
    /\ Item(test_results, response.session_id).timestamp < now

C27_Witness ==
    \E s, t \in DOMAIN test_sessions :
        /\ test_sessions[s].status = "completed" /\ s \in Keys(test_results)
        /\ test_sessions[t].status = "active" /\ t \notin Keys(test_results)

====
